---- MODULE Spec2Model ----
(***************************************************************************)
(* Verification model of ares/populations/GalaxyEnsemble.py: the cluster   *)
(* sampling of one timestep (_gen_stars), the tiling helper (tile), the    *)
(* halo-history generation (_gen_halo_histories), the deterministic batch  *)
(* evolver (_gen_galaxy_histories), one trajectory of the stochastic       *)
(* engine (_gen_galaxy_history), the log-normal scatter and the cached     *)
(* queries LuminosityFunction and StellarMassFunction, the burst-mode duty *)
(* cycle, the histories setter, and the extrapolation guard of             *)
(* ares/util/ParameterizedHaloProperty.py.                                 *)
(*                                                                         *)
(* Masses, times and energies are exact integers in model units; array     *)
(* indices are the 0-based indices of the source.                          *)
(***************************************************************************)
EXTENDS Integers, Sequences, FiniteSets, TLC

\* ------------------------------------------------------------------ bounds
NumT == 3
MaxStep == 2
MaxGas == 3
MaxMc == 2
MaxNMS == 2
MaxPending == 1
MaxDelay == 2
MaxWind == 2
MaxRows == 2
NumCols == 1
MaxVal == 2
MaxThin == 3
MaxZ == 3
NumHalo == 2
GenPeriod == 3
MaxArr == 6
MaxSigma == 6
MaxTon == 2
DutyDen == 4

VARIABLES
    \* ---- stochastic engine: object state read and written by _gen_stars
    pf,          \* configuration (pop_sample_imf, pop_delay_sne_feedback, ...)
    arr_t,       \* self._arr_t   : times of the trajectory, ascending
    arr_SN,      \* self._arr_SN  : supernova accumulator per timestep
    arr_UV,      \* self._arr_UV  : UV energy accumulator per timestep
    arr_Mg_c,    \* self._arr_Mg_c: cold gas per timestep
    avg_delay,   \* self._stars.avg_sn_delay
    wsn,         \* wind mass per supernova: 2e51*pop_coupling_sne/vesc^2/g_per_msun
    wuv,         \* wind mass per unit UV energy: 2*pop_coupling_rad/vesc^2/g_per_msun
    \* ---- locals of one _gen_stars call
    pc,          \* "idle" | "loop" | "done" | "error"
    idnum, Mg, Ms, Mw, Mw_rad, N_SN_0, N_SN_p, E_UV_0, E_UV_p, N_MS, Mc, ct,
    ret,         \* the returned (Ms, Mw), or NoRet
    \* ---- history of the call, for the statements about it
    SN_at_call,  \* contents of arr_SN when the call started
    drawn,       \* total number of massive stars drawn in the call
    \* ---- tile(arr, thin, renorm)
    tile_arr,    \* contents of the array object passed in
    tile_thin,   \* thin, counted in halves (4 stands for thin = 2, 3 for 1.5)
    tile_renorm, \* renorm
    tile_new,    \* contents of the returned array object
    tile_fresh,  \* the returned object is not the object passed in
    tile_pc,     \* "idle" | "returned" | "AssertionError"
    tile_ret,    \* the value as it was returned
    tile_arg,    \* the value as it was passed in
    \* ---- _gen_halo_histories
    raw,         \* the raw histories: z, Mh, nh, and MAR when has_MAR
    hpf,         \* pop_thin_hist (in halves), pop_scatter_mar, pop_scatter_env,
                 \* pop_synth_minimal, pop_synth_zmin/zmax, pop_histories given,
                 \* pop_scatter_mar_seed
    cosm_t,      \* cosm.t_of_z(z) / s_per_myr for each redshift z
    guide_Mmin,  \* guide.Mmin(z) for each redshift z
    rng,         \* state of the global generator np.random
    tab_shape,   \* self._tab_shape, or None while unset
    tab_z,       \* self._tab_z, or None while unset
    cache_halos, \* self._cache_halos_, or None while unset
    halo_pc,     \* "idle" | "done" | "AssertionError" | "ValueError"
    halo_line,   \* source line of the failed statement, 0 if none
    halo_ret,    \* the returned histories, or None
    \* ---- _gen_galaxy_histories, deterministic branch
    halos,       \* the halo histories handed to the evolver (ascending z)
    bpf,         \* pop_fduty, pop_Mmin, pop_quench, pop_mass_yield, ...
    batch_pc,    \* "idle" | "done" | "AssertionError" | "TypeError"
    batch_line,  \* source line of the failed statement, 0 if none
    results,     \* the returned dictionary (ascending time), or None
    \* ---- a second population built from the same input
    halo_prev,   \* the MAR of the generation before, or None
    \* ---- _gen_galaxy_history: one trajectory of the stochastic engine
    hist_halo,   \* the halo dictionary passed in (ascending redshift)
    hist_zobs,   \* zobs
    hist_eq,     \* E_h > 1e51 * pop_force_equilibrium
    hist_mp,     \* pop_multiphase
    hist_tdyn,   \* self.halos.DynamicalTime(z) / s_per_myr, the same at each z
    hist_pc,     \* "idle" | "step" | "stars" | "returned" | an exception
    hist_line,   \* source line of the failed statement, 0 if none
    hist_i,      \* the loop index i of line 1021
    arr_Mg_t,    \* self._arr_Mg_t: total gas per timestep
    hist_SFR,    \* the local SFR
    hist_ret,    \* the returned dictionary, or None
    \* ---- history of the calls, for the statements about them
    left_SN,     \* arr_SN held deposits when the trajectory was started
    own_SN,      \* supernovae deposited per slot by this trajectory
    \* ---- the global generator np.random as _gen_stars draws from it
    gen,         \* state of the generator
    gen_at_call, \* its state before the first of two calls
    seq_pc,      \* "ready" | "first" | "second"
    seq_i,       \* the timestep of the two calls
    seq_n,       \* passes of the loop that have drawn
    seq_mc,      \* Mc as drawn in this pass
    seq_nms,     \* N_MS as drawn in this pass
    seq_trace,   \* the cluster masses drawn in this call, in order
    seq_calls,   \* calls of _gen_stars that have returned
    first_run,   \* cluster masses, Ms and Mw of the first call, or None
    \* ---- the mean over seeds of the log-normal scatter
    ln_arr,      \* the value of the constant array
    ln_sigma,    \* sigma
    ln_pc,       \* "idle" | "noised" | "normalized"
    ln_mean,     \* the mean of the array over seeds
    \* ---- the cached queries
    cache_lf_,   \* self._cache_lf_: key -> (bin_c, phi), None where absent
    cache_smf_,  \* self._cache_smf_: z -> (bin_c, phi), None where absent
    q_pc,        \* "idle" while the object takes queries
    q_call,      \* the last query and its arguments, or None
    q_ret,       \* what the last query returned or raised
    \* ---- burst-mode duty cycle of _gen_galaxy_histories (pop_fduty_dt set)
    duty_Ton,    \* T_on = pop_fduty_dt, in Myr
    duty_dt,     \* dt_myr[0], in Myr
    duty_favg,   \* fduty_avg[i], in units of 1 / DutyDen
    duty_sfr0,   \* np.all(SFR[i] == 0) for each trajectory i
    duty_on,     \* on[i, j]
    duty_i,      \* the loop index i of line 1288
    duty_pc,     \* "idle" | "for" | "while" | "done"
    \* ---- a ParameterizedHaloProperty and its calls
    php_pf,      \* php_Mfun, php_Mfun_lo, php_Mfun_hi
    apply_extrap_,  \* self._apply_extrap_
    php_pc,      \* "idle" | "returned" | "NameError" | "TypeError"
    php_ret,     \* the terms of the value the last call returned, or None
    \* ---- the histories setter
    set_arg,     \* the dictionary as it was passed in
    histories_,  \* self._histories, or None while unset
    set_pc       \* "idle" | "set" | "again" | "AssertionError"

starsVars == <<pf, arr_t, arr_SN, arr_UV, arr_Mg_c, avg_delay, wsn, wuv, pc,
               idnum, Mg, Ms, Mw, Mw_rad, N_SN_0, N_SN_p, E_UV_0, E_UV_p,
               N_MS, Mc, ct, ret, SN_at_call, drawn>>

tileVars == <<tile_arr, tile_thin, tile_renorm, tile_new, tile_fresh, tile_pc,
              tile_ret, tile_arg>>

haloVars == <<raw, hpf, cosm_t, guide_Mmin, rng, tab_shape, tab_z,
              cache_halos, halo_pc, halo_line, halo_ret>>

batchVars == <<halos, bpf, batch_pc, batch_line, results>>

regenVars == <<halo_prev>>

histVars == <<hist_halo, hist_zobs, hist_eq, hist_mp, hist_tdyn, hist_pc,
              hist_line, hist_i, arr_Mg_t, hist_SFR, hist_ret, left_SN, own_SN>>

seqVars == <<gen, gen_at_call, seq_pc, seq_i, seq_n, seq_mc, seq_nms,
             seq_trace, seq_calls, first_run>>

lnVars == <<ln_arr, ln_sigma, ln_pc, ln_mean>>

cacheVars == <<cache_lf_, cache_smf_, q_pc, q_call, q_ret>>

dutyVars == <<duty_Ton, duty_dt, duty_favg, duty_sfr0, duty_on, duty_i,
              duty_pc>>

phpVars == <<php_pf, apply_extrap_, php_pc, php_ret>>

setVars == <<set_arg, histories_, set_pc>>

\* the duty cycle, the halo property and the setter
utilVars == <<dutyVars, phpVars, setVars>>

vars == <<starsVars, tileVars, haloVars, batchVars, regenVars, histVars,
          seqVars, lnVars, cacheVars, utilVars>>

\* what the operations of one component leave alone
notStars == <<tileVars, haloVars, batchVars, regenVars, histVars, seqVars,
              lnVars, cacheVars,
    utilVars>>

notTile == <<starsVars, haloVars, batchVars, regenVars, histVars, seqVars,
             lnVars, cacheVars,
    utilVars>>

notHalo == <<starsVars, tileVars, batchVars, histVars, seqVars,
             lnVars, cacheVars,
    utilVars>>

notBatch == <<starsVars, tileVars, haloVars, regenVars, histVars, seqVars,
              lnVars, cacheVars,
    utilVars>>

notHist == <<tileVars, haloVars, batchVars, regenVars, seqVars,
             lnVars, cacheVars,
    utilVars>>

notLn == <<starsVars, tileVars, haloVars, batchVars, regenVars, histVars,
           seqVars, cacheVars,
    utilVars>>

notCache == <<starsVars, tileVars, haloVars, batchVars, regenVars, histVars,
              seqVars, lnVars,
    utilVars>>

notSeq == <<tileVars, haloVars, batchVars, regenVars, histVars,
            lnVars, cacheVars,
    utilVars>>

NoRet == [Ms |-> -1, Mw |-> -1]

TimeIdx == 0..(NumT - 1)

Abs(x) == IF x < 0 THEN -x ELSE x

RECURSIVE SumTo(_, _)
SumTo(f, n) == IF n < 0 THEN 0 ELSE f[n] + SumTo(f, n - 1)

\* np.sum over a whole per-timestep array
SumArr(f) == SumTo(f, NumT - 1)

\* np.all(np.diff(t) >= 0), asserted by _gen_galaxy_history before any step
NonDecreasing(t) == \A k \in 0..(NumT - 2) : t[k] <= t[k + 1]

\* ArgMinFuture that always takes the next timestep
ArgMinFutureNext(t, i, delay) == IF NumT - 1 - i >= 1 THEN 1 ELSE 0

\* np.argmin(np.abs((tfut - tnow) - delay)) with tfut = self._arr_t[i:]:
\* the first offset k whose distance to tnow + delay is minimal
ArgMinFuture(t, i, delay) ==
    LET d(k) == Abs((t[i + k] - t[i]) - delay)
        K == 0..(NumT - 1 - i)
    IN CHOOSE k \in K : /\ \A m \in K : d(k) <= d(m)
                        /\ \A m \in K : m < k => d(m) > d(k)

\* the configurations of the feedback switches
PfSet == [sample_imf : BOOLEAN, delay_sne : 0..3, feedback_rad : BOOLEAN,
          delay_rad : 0..1, fstar_num : 1..2, fstar_den : {2}]

InitStars ==
    /\ pf \in {p \in PfSet : (~p.feedback_rad) => p.delay_rad = 0}
    /\ arr_t \in {t \in [TimeIdx -> 0..(MaxStep * (NumT - 1))] :
                    /\ t[0] = 0
                    /\ NonDecreasing(t)
                    /\ \A k \in 0..(NumT - 2) : t[k + 1] - t[k] <= MaxStep}
    /\ \E p \in 0..MaxPending : arr_SN = [k \in TimeIdx |-> p]
    /\ \E u \in 0..1 : arr_UV = [k \in TimeIdx |-> u]
    /\ \E g \in 0..MaxGas : arr_Mg_c = [k \in TimeIdx |-> g]
    /\ avg_delay \in 1..MaxDelay
    /\ wsn \in 1..MaxWind
    /\ wuv \in 0..1
    \* inputs that the configuration never reads are not varied
    /\ (pf.delay_sne # 1) => avg_delay = 1
    /\ (pf.delay_sne \notin {1, 2}) => arr_t = [k \in TimeIdx |-> k]
    /\ (pf.feedback_rad /\ pf.delay_rad = 0) => wuv = 1
    /\ ~(pf.feedback_rad /\ pf.delay_rad = 0) => (wuv = 0 /\ arr_UV[0] = 0)
    /\ pc = "idle"
    /\ idnum = 0 /\ Mg = 0 /\ Ms = 0 /\ Mw = 0 /\ Mw_rad = 0
    /\ N_SN_0 = 0 /\ N_SN_p = 0 /\ E_UV_0 = 0 /\ E_UV_p = 0
    /\ N_MS = 0 /\ Mc = 0 /\ ct = 0
    /\ ret = NoRet
    /\ SN_at_call = arr_SN
    /\ drawn = 0

\* _gen_stars, entry: lines 711-744
GenStarsCall(i) ==
    /\ pc = "idle"
    /\ i \in 0..(NumT - 2)
    /\ idnum' = i
    /\ Ms' = 0
    /\ Mg' = arr_Mg_c[i]
    /\ N_SN_p' = arr_SN[i]
    /\ E_UV_p' = arr_UV[i]
    /\ N_SN_0' = 0
    /\ E_UV_0' = 0
    /\ ct' = 0
    /\ Mw' = 0
    /\ Mw_rad' = 0
    /\ pc' = "loop"
    /\ SN_at_call' = arr_SN
    /\ drawn' = 0
    /\ UNCHANGED <<pf, arr_t, arr_SN, arr_UV, arr_Mg_c, avg_delay, wsn, wuv,
                   N_MS, Mc, ret>>
    /\ UNCHANGED notStars

\* the while condition of line 745
LoopCond == (Mw + Mw_rad + Ms) * pf.fstar_den < Mg * pf.fstar_num

\* deposit of the supernovae of one cluster under delay mode 2, lines 848-863:
\* one slot increment per drawn delay
RECURSIVE DepositDelays(_, _, _, _)
DepositDelays(sn, t, i, delays) ==
    IF delays = <<>> THEN sn
    ELSE LET j == i + ArgMinFuture(t, i, Head(delays))
         IN DepositDelays([sn EXCEPT ![j] = @ + 1], t, i, Tail(delays))

\* NowCount that attributes no supernova to the current step
NowCountNone(t, i, delays) == 0

\* sum(iSNe == 0), line 863
NowCount(t, i, delays) ==
    Cardinality({k \in DOMAIN delays : ArgMinFuture(t, i, delays[k]) = 0})

\* SNeFeedback whose mode-1 deposit assigns the slot instead of adding to it
SNeFeedbackAssign(mode, sample_imf, sn, n0, t, i, D, n, delays) ==
    IF mode = 0 THEN [sn |-> sn, n0 |-> n0 + n, err |-> FALSE]
    ELSE IF mode = 1 THEN
        IF sample_imf THEN [sn |-> sn, n0 |-> n0, err |-> TRUE]
        ELSE IF (t[i + 1] - t[i]) > D
             THEN [sn |-> sn, n0 |-> n0 + n, err |-> FALSE]
             ELSE [sn |-> [sn EXCEPT ![i + ArgMinFuture(t, i, D)] = n],
                   n0 |-> n0, err |-> FALSE]
    ELSE IF mode = 2 THEN
        [sn |-> DepositDelays(sn, t, i, delays),
         n0 |-> n0 + NowCount(t, i, delays), err |-> FALSE]
    ELSE [sn |-> sn, n0 |-> n0, err |-> FALSE]

\* the supernova branch of one cluster, lines 813-863.  Gives the new
\* accumulator, the new N_SN_0 and whether the branch raised.
SNeFeedback(mode, sample_imf, sn, n0, t, i, D, n, delays) ==
    IF mode = 0 THEN [sn |-> sn, n0 |-> n0 + n, err |-> FALSE]
    ELSE IF mode = 1 THEN
        IF sample_imf THEN [sn |-> sn, n0 |-> n0, err |-> TRUE]
        ELSE IF (t[i + 1] - t[i]) > D
             THEN [sn |-> sn, n0 |-> n0 + n, err |-> FALSE]
             ELSE [sn |-> [sn EXCEPT ![i + ArgMinFuture(t, i, D)] = @ + n],
                   n0 |-> n0, err |-> FALSE]
    ELSE IF mode = 2 THEN
        [sn |-> DepositDelays(sn, t, i, delays),
         n0 |-> n0 + NowCount(t, i, delays), err |-> FALSE]
    ELSE [sn |-> sn, n0 |-> n0, err |-> FALSE]

\* wind mass of lines 868-869
WindMass(n0, np) == (n0 + np) * wsn

\* RadFeedback that runs past the raise of line 909 into the code after it
RadFeedbackNoRaise(frad, drad, euv0, mwrad, euvp, n) ==
    IF ~frad THEN [euv0 |-> euv0, mwrad |-> mwrad, err |-> FALSE]
    ELSE IF drad = 0
         THEN [euv0 |-> euv0 + n,
               mwrad |-> mwrad + (euv0 + n + euvp) * wuv, err |-> FALSE]
    ELSE [euv0 |-> euv0, mwrad |-> mwrad, err |-> FALSE]

\* the radiative branch of one cluster, lines 874-923.  Gives the new E_UV_0,
\* the new Mw_rad and whether the branch raised.
RadFeedback(frad, drad, euv0, mwrad, euvp, n) ==
    IF ~frad THEN [euv0 |-> euv0, mwrad |-> mwrad, err |-> FALSE]
    ELSE IF drad = 0
         THEN [euv0 |-> euv0 + n,
               mwrad |-> mwrad + (euv0 + n + euvp) * wuv, err |-> FALSE]
    ELSE IF drad >= 1
         THEN [euv0 |-> euv0, mwrad |-> mwrad, err |-> TRUE]
    ELSE [euv0 |-> euv0, mwrad |-> mwrad, err |-> FALSE]

\* Overshoots without the proposed cluster in the sum
OvershootsNoCluster(ms, mc, mw, mg) == (ms + mw) >= mg

\* the overshoot test of line 752
Overshoots(ms, mc, mw, mg) == (ms + mc + mw) >= mg

\* one pass through the body of the while loop, lines 745-926:
\* mc is the cluster mass drawn from the CDF table, n the number of massive
\* stars drawn for it, delays the delays drawn for them in mode 2
Cluster(mc, n, delays) ==
    /\ pc = "loop"
    /\ LoopCond
    /\ Mc' = mc
    /\ IF Overshoots(Ms, mc, Mw, Mg)
       THEN \* break, then return Ms, Mw, imf
            /\ pc' = "done"
            /\ ret' = [Ms |-> Ms, Mw |-> Mw]
            /\ UNCHANGED <<Ms, Mw, Mw_rad, N_SN_0, E_UV_0, N_MS, ct, arr_SN,
                           drawn>>
       ELSE
            /\ N_MS' = n
            /\ drawn' = drawn + n
            /\ Ms' = Ms + mc
            /\ UNCHANGED ret
            /\ IF n = 0
               THEN /\ ct' = ct + 1
                    /\ pc' = "loop"
                    /\ UNCHANGED <<Mw, Mw_rad, N_SN_0, E_UV_0, arr_SN>>
               ELSE LET fb == SNeFeedback(pf.delay_sne, pf.sample_imf, arr_SN,
                                          N_SN_0, arr_t, idnum, avg_delay, n,
                                          delays)
                        rad == RadFeedback(pf.feedback_rad, pf.delay_rad,
                                           E_UV_0, Mw_rad, E_UV_p, n)
                    IN IF fb.err
                       THEN /\ pc' = "error"
                            /\ UNCHANGED <<Mw, Mw_rad, N_SN_0, E_UV_0, arr_SN,
                                           ct>>
                       ELSE /\ arr_SN' = fb.sn
                            /\ N_SN_0' = fb.n0
                            /\ Mw' = WindMass(fb.n0, N_SN_p)
                            /\ E_UV_0' = rad.euv0
                            /\ Mw_rad' = rad.mwrad
                            /\ IF rad.err
                               THEN pc' = "error" /\ UNCHANGED ct
                               ELSE pc' = "loop" /\ ct' = ct + 1
    /\ UNCHANGED <<pf, arr_t, arr_UV, arr_Mg_c, avg_delay, wsn, wuv, idnum, Mg,
                   N_SN_p, E_UV_p, SN_at_call>>
    /\ UNCHANGED notStars

\* the while condition fails: line 932
GenStarsReturn ==
    /\ pc = "loop"
    /\ ~LoopCond
    /\ pc' = "done"
    /\ ret' = [Ms |-> Ms, Mw |-> Mw]
    /\ UNCHANGED <<pf, arr_t, arr_SN, arr_UV, arr_Mg_c, avg_delay, wsn, wuv,
                   idnum, Mg, Ms, Mw, Mw_rad, N_SN_0, N_SN_p, E_UV_0, E_UV_p,
                   N_MS, Mc, ct, SN_at_call, drawn>>
    /\ UNCHANGED notStars

\* a table of cluster masses that holds a cluster of no mass
TabMclWithZero == 0..MaxMc

\* the values np.interp(r, self.tab_cdf, self.tab_Mcl) can take: those of
\* self.tab_Mcl = np.logspace(-1., 8, 10000), lines 547-551, all positive
TabMcl == 1..MaxMc

\* the delays of draw_delays(N_MS): one per massive star, only in mode 2
DelaySet(n) ==
    IF pf.delay_sne = 2
    THEN {d \in [1..n -> 0..MaxDelay] : \A k \in 1..(n - 1) : d[k] <= d[k + 1]}
    ELSE {<<>>}

\* the engine is not running (specifications of the other operations)
StarsOff ==
    /\ pf = [sample_imf |-> FALSE, delay_sne |-> 0, feedback_rad |-> FALSE,
             delay_rad |-> 0, fstar_num |-> 1, fstar_den |-> 2]
    /\ arr_t = [k \in TimeIdx |-> 0]
    /\ arr_SN = [k \in TimeIdx |-> 0]
    /\ arr_UV = [k \in TimeIdx |-> 0]
    /\ arr_Mg_c = [k \in TimeIdx |-> 0]
    /\ avg_delay = 1 /\ wsn = 1 /\ wuv = 0
    /\ pc = "off"
    /\ idnum = 0 /\ Mg = 0 /\ Ms = 0 /\ Mw = 0 /\ Mw_rad = 0
    /\ N_SN_0 = 0 /\ N_SN_p = 0 /\ E_UV_0 = 0 /\ E_UV_p = 0
    /\ N_MS = 0 /\ Mc = 0 /\ ct = 0
    /\ ret = NoRet
    /\ SN_at_call = arr_SN
    /\ drawn = 0

\* ======================================================================
\* tile(arr, thin, renorm), lines 193-218
\* ======================================================================
\* Arrays are functions from the row index 0..N-1 to rows, a row is a function
\* from the column index to a cell, and a cell is an exact fraction <<num, den>>.
\* None is the empty tuple; an array has at least one row.

None == <<>>

NRows(a) == Cardinality(DOMAIN a)

ColIdx == 0..(NumCols - 1)

\* a / k for a cell a (new / float(thin), line 216)
CellDiv(a, k) == <<a[1], a[2] * k>>

\* equality of two cells as numbers
CellEq(a, b) == a[1] * b[2] = b[1] * a[2]

CellAdd(a, b) == <<a[1] * b[2] + b[1] * a[2], a[2] * b[2]>>

RECURSIVE ColSumTo(_, _, _)
ColSumTo(a, c, n) ==
    IF n < 0 THEN <<0, 1>> ELSE CellAdd(a[n][c], ColSumTo(a, c, n - 1))

\* np.sum(a, axis=0)[c]
ColSum(a, c) == ColSumTo(a, c, NRows(a) - 1)

\* np.repeat(arr, k, axis=0): row r of the result is row r div k of arr
Repeat(arr, k) == [r \in 0..(k * NRows(arr) - 1) |-> arr[r \div k]]

\* tile built on np.tile (the commented line 209) instead of np.repeat
tileInterleaved(arr, thin, renorm) ==
    IF arr = None THEN [new |-> None, fresh |-> FALSE, err |-> FALSE]
    ELSE IF thin \in {0, 2} THEN [new |-> arr, fresh |-> TRUE, err |-> FALSE]
    ELSE IF thin % 2 # 0 THEN [new |-> None, fresh |-> FALSE, err |-> TRUE]
    ELSE LET k == thin \div 2
             new == [r \in 0..(k * NRows(arr) - 1) |-> arr[r % NRows(arr)]]
         IN IF renorm
            THEN [new |-> [r \in DOMAIN new |->
                              [c \in DOMAIN new[r] |-> CellDiv(new[r][c], k)]],
                  fresh |-> TRUE, err |-> FALSE]
            ELSE [new |-> new, fresh |-> TRUE, err |-> FALSE]

\* tile, lines 193-218.  thin is counted in halves.  Gives the returned
\* contents, whether the returned object is a new one, and whether the
\* assertion of line 205 failed.
tile(arr, thin, renorm) ==
    IF arr = None THEN [new |-> None, fresh |-> FALSE, err |-> FALSE]
    ELSE IF thin \in {0, 2} THEN [new |-> arr, fresh |-> TRUE, err |-> FALSE]
    ELSE IF thin % 2 # 0 THEN [new |-> None, fresh |-> FALSE, err |-> TRUE]
    ELSE LET k == thin \div 2
             new == Repeat(arr, k)
         IN IF renorm
            THEN [new |-> [r \in DOMAIN new |->
                              [c \in DOMAIN new[r] |-> CellDiv(new[r][c], k)]],
                  fresh |-> TRUE, err |-> FALSE]
            ELSE [new |-> new, fresh |-> TRUE, err |-> FALSE]

\* the arrays handed to tile: N rows of whole numbers
ArraySet ==
    UNION {[0..(n - 1) -> [ColIdx -> {<<v, 1>> : v \in 1..MaxVal}]] :
               n \in 1..MaxRows}

InitTile ==
    /\ tile_arr \in ArraySet \cup {None}
    /\ tile_thin \in 0..(2 * MaxThin)
    /\ tile_renorm \in BOOLEAN
    /\ tile_new = None
    /\ tile_fresh = FALSE
    /\ tile_pc = "idle"
    /\ tile_ret = None
    /\ tile_arg = tile_arr

TileOff ==
    /\ tile_arr = None /\ tile_thin = 0 /\ tile_renorm = FALSE
    /\ tile_new = None /\ tile_fresh = FALSE /\ tile_pc = "off"
    /\ tile_ret = None /\ tile_arg = None

\* a call of tile
TileCall ==
    /\ tile_pc = "idle"
    /\ LET r == tile(tile_arr, tile_thin, tile_renorm)
       IN /\ tile_pc' = IF r.err THEN "AssertionError" ELSE "returned"
          /\ tile_new' = r.new
          /\ tile_ret' = r.new
          /\ tile_fresh' = r.fresh
    /\ UNCHANGED <<tile_arr, tile_thin, tile_renorm, tile_arg>>
    /\ UNCHANGED notTile

\* the caller assigns to one element of the returned array (as in
\* mar *= ..., line 374): a write to an object reaches every name of it
TileWrite(r, c) ==
    /\ tile_pc = "returned"
    /\ tile_new # None
    /\ tile_new = tile_ret
    /\ r \in DOMAIN tile_new
    /\ tile_new' = [tile_new EXCEPT ![r][c] = <<0, 1>>]
    /\ tile_arr' = IF tile_fresh THEN tile_arr
                   ELSE [tile_arr EXCEPT ![r][c] = <<0, 1>>]
    /\ UNCHANGED <<tile_thin, tile_renorm, tile_fresh, tile_pc, tile_ret,
                   tile_arg>>
    /\ UNCHANGED notTile

NextTile ==
    \/ TileCall
    \/ \E r \in 0..(MaxRows * (MaxThin + 1)), c \in ColIdx : TileWrite(r, c)

\* ======================================================================
\* _gen_halo_histories, lines 263-433
\* ======================================================================
\* The redshift grid z is a function from the grid index 0..Nz-1 to redshifts.
\* Times are whole numbers of Myr (t_of_z / s_per_myr) or of years.

TinyDen == 1000000000

\* tiny_MAR, line 41: a positive floor far below every rate of the model
tiny_MAR == <<1, TinyDen>>

YrPerMyr == 1000000

Size(f) == Cardinality(DOMAIN f)

\* StrictlyAscending with >= in place of >
NonDescending(z) == \A j \in 0..(Size(z) - 2) : z[j + 1] - z[j] >= 0

\* np.all(np.diff(zall) > 0), line 292
StrictlyAscending(z) == \A j \in 0..(Size(z) - 2) : z[j + 1] - z[j] > 0

\* MAR derived like np.hstack((MAR_z, zeros)): the floor in the last slot
DeriveMARPadLast(Mh, z) ==
    LET t == [j \in DOMAIN z |-> cosm_t[z[j]] * YrPerMyr]
        last == Size(z) - 1
    IN [i \in DOMAIN Mh |->
          [j \in DOMAIN z |->
              IF j = last THEN tiny_MAR
              ELSE <<(-1) * (Mh[i][j + 1][1] - Mh[i][j][1]),
                     (-1) * (t[j + 1] - t[j])>>]]

\* the MAR derived from Mh, lines 304-315:
\*   dM = -diff(Mh, axis=1); dt = -diff(t); MAR_z = dM / dt
\*   mar_raw = hstack((tiny_MAR column, MAR_z))
DeriveMAR(Mh, z) ==
    LET t == [j \in DOMAIN z |-> cosm_t[z[j]] * YrPerMyr]
    IN [i \in DOMAIN Mh |->
          [j \in DOMAIN z |->
              IF j = 0 THEN tiny_MAR
              ELSE <<(-1) * (Mh[i][j][1] - Mh[i][j - 1][1]),
                     (-1) * (t[j] - t[j - 1])>>]]

\* the n-th smallest element of a set of indices, n = 0, 1, ...
Nth(S, n) == CHOOSE x \in S : Cardinality({y \in S : y < x}) = n

\* a[rows, cols] for a set of row indices and a set of column indices
Slice2(a, rows, cols) ==
    LET r == [i \in 0..(Cardinality(rows) - 1) |-> Nth(rows, i)]
        c == [j \in 0..(Cardinality(cols) - 1) |-> Nth(cols, j)]
    IN [i \in DOMAIN r |-> [j \in DOMAIN c |-> a[r[i]][c[j]]]]

\* z[cols]
Slice1(z, cols) == [j \in 0..(Cardinality(cols) - 1) |-> z[Nth(cols, j)]]

\* a.shape of a 2-D array
Shape(a) == <<Size(a), IF Size(a) = 0 THEN 0 ELSE Size(a[0])>>

\* the value drawn from the generator in state r, and the state after a draw
Draw(r) == r

Advance(r) == (r + 1) % 2

\* mar *= (1. + noise_normal(mar, sigma_env)), line 374
ScatterEnv(mar, r) ==
    [i \in DOMAIN mar |->
        [j \in DOMAIN mar[i] |-> <<mar[i][j][1] * (1 + Draw(r)), mar[i][j][2]>>]]

\* stand-in for the factor exp(0.5 * sigma_mar**2) of line 381
ExpHalfSigma2 == 2

\* mar += noise_lognormal(mar, sigma_mar); mar /= exp(0.5*sigma_mar**2),
\* lines 378-381: arr + (arr * 10**n - arr), then the division
ScatterMAR(mar, r) ==
    [i \in DOMAIN mar |->
        [j \in DOMAIN mar[i] |->
            <<mar[i][j][1] * (1 + Draw(r)), mar[i][j][2] * ExpHalfSigma2>>]]

\* Mh_raw > Mmin[:,None] cannot be evaluated, line 334: Mh_raw has the shape
\* (N, Nz) and Mmin[:,None] the shape (Nz, 1), which numpy broadcasts only
\* when N = Nz or one of them is 1
BroadcastFails(Mh, z) ==
    Size(Mh) # Size(z) /\ Size(Mh) # 1 /\ Size(z) # 1

\* the indices i with any_viable[i] > 0, lines 334-336.  Mmin[:,None] is a
\* column: numpy stretches it along the second axis, so cell (i, j) of
\* Mh_raw is compared with Mmin[i], the threshold at the redshift of index i
AnyViable(Mh, z) ==
    LET R == IF Size(Mh) = 1 THEN DOMAIN z ELSE DOMAIN Mh
        row(i) == IF Size(Mh) = 1 THEN 0 ELSE i
        thr(i) == guide_Mmin[z[IF Size(z) = 1 THEN 0 ELSE i]]
    IN {i \in R : \E j \in DOMAIN z : Mh[row(i)][j][1] > thr(i)}

HaloFail(kind, line) ==
    [pc |-> kind, line |-> line, ret |-> None, shape |-> tab_shape,
     tz |-> tab_z, rng |-> rng]

\* the body of _gen_halo_histories after the cache test, lines 272-433
GenHaloBody ==
    LET thin == hpf.thin
        zall0 == raw.z
    IN
    IF thin > 2 /\ hpf.histories_given THEN HaloFail("AssertionError", 277)
    ELSE IF ~StrictlyAscending(zall0) THEN HaloFail("AssertionError", 292)
    ELSE IF ~raw.has_MAR /\ ~(thin < 4) THEN HaloFail("AssertionError", 300)
    ELSE IF ~raw.has_MAR /\ ~(hpf.sigma_mar = 0 /\ hpf.sigma_env = 0)
         THEN HaloFail("AssertionError", 301)
    ELSE
    LET mar0 == IF raw.has_MAR THEN raw.MAR ELSE DeriveMAR(raw.Mh, zall0)
        trim == hpf.synth_minimal /\ ~hpf.histories_given
    IN
    IF trim /\ BroadcastFails(raw.Mh, zall0) THEN HaloFail("ValueError", 334)
    ELSE
    LET viable == IF trim THEN AnyViable(raw.Mh, zall0) ELSE {}
    IN
    IF trim /\ viable = {} THEN HaloFail("ValueError", 339)
    ELSE
    LET ilo == IF trim THEN Nth(viable, 0) ELSE 0
        ihi == IF trim THEN Nth(viable, Cardinality(viable) - 1) + 1
               ELSE Size(raw.Mh)
        rows == (ilo..(ihi - 1)) \cap DOMAIN raw.Mh
        zok == IF trim
               THEN {j \in DOMAIN zall0 : zall0[j] >= hpf.zmin
                                           /\ zall0[j] <= hpf.zmax}
               ELSE DOMAIN zall0
        zall == Slice1(zall0, zok)
        Mh_raw == Slice2(raw.Mh, rows, zok)
        nh_raw == Slice2(raw.nh, rows, zok)
        mar_raw == Slice2(mar0, rows, zok)
        tnh == IF thin > 0 THEN tile(nh_raw, thin, TRUE)
               ELSE [new |-> nh_raw, fresh |-> FALSE, err |-> FALSE]
        tMh == IF thin > 0 THEN tile(Mh_raw, thin, FALSE)
               ELSE [new |-> Mh_raw, fresh |-> FALSE, err |-> FALSE]
    IN
    IF tnh.err \/ tMh.err THEN HaloFail("AssertionError", 205)
    ELSE
    LET tmar == tile(mar_raw, thin, FALSE)
        mar1 == IF hpf.sigma_env > 0 THEN ScatterEnv(tmar.new, rng)
                ELSE tmar.new
        rng1 == IF hpf.sigma_env > 0 THEN Advance(rng) ELSE rng
        mar2 == IF hpf.sigma_mar > 0 THEN ScatterMAR(mar1, hpf.seed)
                ELSE mar1
        rng2 == IF hpf.sigma_mar > 0 THEN Advance(hpf.seed) ELSE rng1
        rand == IF hpf.dust_yield
                THEN [i \in DOMAIN tMh.new |->
                        [j \in DOMAIN tMh.new[i] |-> <<Draw(rng2), 1>>]]
                ELSE None
        rng3 == IF hpf.dust_yield THEN Advance(rng2) ELSE rng2
        zthin == tile([j \in DOMAIN zall |-> [c \in {0} |-> <<zall[j], 1>>]],
                      thin, FALSE).new
    IN [pc |-> "done", line |-> 0,
        ret |-> [Mh |-> tMh.new, MAR |-> mar2, nh |-> tnh.new,
                 zthin |-> [j \in DOMAIN zthin |-> zthin[j][0][1]],
                 z |-> zall,
                 t |-> [j \in DOMAIN zall |-> cosm_t[zall[j]]],
                 rand |-> rand,
                 SFR |-> IF raw.has_SFR THEN raw.SFR ELSE None],
        shape |-> Shape(tMh.new), tz |-> zall, rng |-> rng3]

\* _gen_halo_histories(): returns the cache when there is one, lines 269-270
GenHaloHistories ==
    /\ halo_pc = "idle"
    /\ IF cache_halos # None
       THEN /\ halo_ret' = cache_halos
            /\ halo_pc' = "done"
            /\ UNCHANGED <<tab_shape, tab_z, rng, halo_line>>
       ELSE \E r \in {GenHaloBody} :
               /\ halo_pc' = r.pc
               /\ halo_line' = r.line
               /\ halo_ret' = r.ret
               /\ tab_shape' = r.shape
               /\ tab_z' = r.tz
               /\ rng' = r.rng
    /\ UNCHANGED <<raw, hpf, cosm_t, guide_Mmin, cache_halos>>
    /\ UNCHANGED <<notHalo, regenVars>>

\* the property _cache_halos, lines 253-257: generate and remember
CacheHalos ==
    /\ halo_pc = "idle"
    /\ cache_halos = None
    /\ \E r \in {GenHaloBody} :
          /\ halo_pc' = r.pc
          /\ halo_line' = r.line
          /\ halo_ret' = r.ret
          /\ cache_halos' = r.ret
          /\ tab_shape' = r.shape
          /\ tab_z' = r.tz
          /\ rng' = r.rng
    /\ UNCHANGED <<raw, hpf, cosm_t, guide_Mmin>>
    /\ UNCHANGED <<notHalo, regenVars>>

\* the caller takes the result or the exception; the object stays as it is
HaloNext ==
    /\ halo_pc # "idle"
    /\ halo_pc' = "idle"
    /\ halo_line' = 0
    /\ halo_ret' = None
    /\ UNCHANGED <<raw, hpf, cosm_t, guide_Mmin, rng, tab_shape, tab_z,
                   cache_halos>>
    /\ UNCHANGED <<notHalo, regenVars>>

\* grids of 2 or 3 redshifts in any order
GridSet == UNION {[0..(n - 1) -> 1..MaxZ] : n \in 2..3}

\* halo masses: trajectory i has the mass level m[i], growing with time
MhOf(m, z) ==
    [i \in 0..(NumHalo - 1) |->
        [j \in DOMAIN z |-> <<m[i] * (Size(z) - j), 1>>]]

Ones(z) == [i \in 0..(NumHalo - 1) |-> [j \in DOMAIN z |-> <<1, 1>>]]

HpfSet == [thin : 0..4, sigma_mar : 0..1, sigma_env : 0..1,
           synth_minimal : BOOLEAN, zmin : 1..2, zmax : {MaxZ},
           histories_given : BOOLEAN, seed : {0}, dust_yield : BOOLEAN]

\* the two time tables: evenly and unevenly spaced, decreasing with redshift
CosmSet == {[z \in 1..MaxZ |-> 2 * (MaxZ + 1 - z)],
            [z \in 1..MaxZ |-> (MaxZ + 1 - z) * (MaxZ + 1 - z)]}

InitHalo ==
    /\ hpf \in HpfSet
    \* inputs that the configuration never reads are not varied
    /\ (~hpf.synth_minimal) => hpf.zmin = 1
    /\ (hpf.thin <= 2 /\ ~hpf.synth_minimal) => ~hpf.histories_given
    /\ \E z \in GridSet, m \in [0..(NumHalo - 1) -> 1..MaxVal],
          hm \in BOOLEAN, hs \in BOOLEAN :
          raw = [z |-> z, Mh |-> MhOf(m, z), nh |-> Ones(z),
                 has_MAR |-> hm, MAR |-> Ones(z),
                 has_SFR |-> hs, SFR |-> Ones(z)]
    /\ (~StrictlyAscending(raw.z)) => (~raw.has_SFR /\ ~hpf.dust_yield)
    \* the optional fields are varied for the histories without scatter
    /\ (raw.has_SFR \/ hpf.dust_yield) =>
           (raw.has_MAR /\ hpf.sigma_mar = 0 /\ hpf.sigma_env = 0)
    /\ hpf.dust_yield => ~raw.has_SFR
    /\ (hpf.sigma_mar > 0 /\ hpf.sigma_env > 0) => raw.has_MAR
    \* a run that fails at line 277, 300 or 301 reads nothing after it
    /\ (hpf.thin > 2 /\ hpf.histories_given) =>
           /\ raw.has_MAR /\ hpf.sigma_mar = 0 /\ hpf.sigma_env = 0
           /\ ~hpf.synth_minimal /\ ~raw.has_SFR /\ ~hpf.dust_yield
           /\ raw.Mh = MhOf([i \in 0..(NumHalo - 1) |-> 1], raw.z)
    /\ (~raw.has_MAR /\ (hpf.thin >= 4 \/ hpf.sigma_mar > 0
                             \/ hpf.sigma_env > 0)) =>
           /\ ~hpf.synth_minimal /\ ~raw.has_SFR /\ ~hpf.dust_yield
           /\ raw.Mh = MhOf([i \in 0..(NumHalo - 1) |-> 1], raw.z)
    \* a fractional pop_thin_hist fails in tile, before the scatter
    /\ (hpf.thin % 2 = 1 /\ raw.has_MAR) =>
           hpf.sigma_mar = 0 /\ hpf.sigma_env = 0
    /\ (hpf.thin % 2 = 1) => (~raw.has_SFR /\ ~hpf.dust_yield)
    /\ (~StrictlyAscending(raw.z)) =>
           /\ hpf.zmin = 1 /\ hpf.sigma_mar = 0 /\ raw.has_MAR
           /\ raw.Mh = MhOf([i \in 0..(NumHalo - 1) |-> 1], raw.z)
    /\ cosm_t \in CosmSet
    /\ (raw.has_MAR \/ ~StrictlyAscending(raw.z)) => cosm_t[MaxZ] = 2
    /\ (~raw.has_MAR /\ (hpf.thin >= 4 \/ hpf.sigma_mar > 0
                             \/ hpf.sigma_env > 0)) => cosm_t[MaxZ] = 2
    /\ guide_Mmin \in {[z \in 1..MaxZ |-> 1], [z \in 1..MaxZ |-> z]}
    /\ (~hpf.synth_minimal \/ ~StrictlyAscending(raw.z)) =>
           guide_Mmin[MaxZ] = 1
    /\ rng \in 0..1
    /\ (hpf.sigma_env = 0 \/ ~StrictlyAscending(raw.z)) => rng = 0
    /\ tab_shape = None
    /\ tab_z = None
    /\ cache_halos = None
    /\ halo_pc = "idle"
    /\ halo_line = 0
    /\ halo_ret = None
    /\ halo_prev = None

HaloOff ==
    /\ raw = [z |-> <<>>, Mh |-> <<>>, nh |-> <<>>, has_MAR |-> TRUE,
              MAR |-> <<>>, has_SFR |-> FALSE, SFR |-> <<>>]
    /\ hpf = [thin |-> 0, sigma_mar |-> 0, sigma_env |-> 0,
              synth_minimal |-> FALSE, zmin |-> 1, zmax |-> MaxZ,
              histories_given |-> FALSE, seed |-> 0, dust_yield |-> FALSE]
    /\ cosm_t = [z \in 1..MaxZ |-> 2 * (MaxZ + 1 - z)]
    /\ guide_Mmin = [z \in 1..MaxZ |-> 1]
    /\ rng = 0
    /\ tab_shape = None /\ tab_z = None /\ cache_halos = None
    /\ halo_pc = "off" /\ halo_line = 0 /\ halo_ret = None
    /\ halo_prev = None

NextHalo ==
    \/ GenHaloHistories
    \/ CacheHalos
    \/ HaloNext

\* a new GalaxyEnsemble built with the same arguments (__init__, line 52):
\* nothing is cached yet; numpy's generator is global and keeps its state
NewPopulation ==
    /\ halo_pc = "done"
    /\ halo_prev = None
    /\ halo_prev' = halo_ret.MAR
    /\ halo_pc' = "idle"
    /\ halo_line' = 0
    /\ halo_ret' = None
    /\ cache_halos' = None
    /\ tab_shape' = None
    /\ tab_z' = None
    /\ UNCHANGED <<raw, hpf, cosm_t, guide_Mmin, rng>>
    /\ UNCHANGED notHalo

\* a draw from numpy's generator anywhere else (np.random.rand(), line 747)
NumpyDraw ==
    /\ halo_pc = "idle"
    /\ rng' = Advance(rng)
    /\ UNCHANGED <<raw, hpf, cosm_t, guide_Mmin, tab_shape, tab_z,
                   cache_halos, halo_pc, halo_line, halo_ret, halo_prev>>
    /\ UNCHANGED notHalo

\* configurations with scatter, the grid in order
InitRegen ==
    /\ InitHalo
    /\ hpf.sigma_env > 0 \/ hpf.sigma_mar > 0
    /\ StrictlyAscending(raw.z)

NextRegen ==
    \/ GenHaloHistories
    \/ NewPopulation
    \/ NumpyDraw

\* ======================================================================
\* _gen_galaxy_histories, deterministic branch, lines 1194-1554
\* ======================================================================
\* Arrays of the evolver hold whole numbers: masses, rates and the factors
\* fb, SFE and 1 - pop_mass_yield are counted in units that make them whole.

\* arr[-1::-1] of a 1-D array
Flip1(a) == [k \in DOMAIN a |-> a[Size(a) - 1 - k]]

\* arr[:,-1::-1] of a 2-D array
Flip2(a) == [i \in DOMAIN a |-> Flip1(a[i])]

RECURSIVE CumSumTo(_, _)
CumSumTo(f, k) == IF k < 0 THEN 0 ELSE f[k] + CumSumTo(f, k - 1)

\* a stellar mass whose column of zeros is stacked after the sums
StellarMassPadLast(SFR, dt, fml) ==
    [i \in DOMAIN SFR |->
        [k \in DOMAIN SFR[i] |->
            IF k = Size(SFR[i]) - 1 THEN 0
            ELSE CumSumTo([j \in 0..k |-> SFR[i][j] * dt[j] * fml], k)]]

\* Ms = hstack((zeros, cumsum(SFR[:,0:-1] * dt * fml, axis=1))), lines 1325-1326
StellarMass(SFR, dt, fml) ==
    [i \in DOMAIN SFR |->
        [k \in DOMAIN SFR[i] |->
            IF k = 0 THEN 0
            ELSE CumSumTo([j \in 0..(k - 1) |-> SFR[i][j] * dt[j] * fml],
                          k - 1)]]

\* arr * mask for a boolean mask (SFR *= above_Mmin, line 1340)
Masked(a, keep) ==
    [i \in DOMAIN a |-> [k \in DOMAIN a[i] |-> IF keep[i][k] THEN a[i][k] ELSE 0]]

\* stand-in for 4 * pi * guide.dust_scale(z, Mh)**2 of line 1420
FourPiScale2 == 3

\* stand-in for g_per_msun / cm_per_kpc**2 of line 1433
CgsPerMsunKpc2 == 5

\* Md = hstack((zeros, cumsum(SFR[:,0:-1] * dt * fZy * fd[:,0:-1], axis=1))),
\* lines 1395-1398, for a dust yield fd that is the same everywhere
DustMass(SFR, dt, fZy, fd) ==
    [i \in DOMAIN SFR |->
        [k \in DOMAIN SFR[i] |->
            IF k = 0 THEN 0
            ELSE CumSumTo([j \in 0..(k - 1) |-> SFR[i][j] * dt[j] * fZy * fd],
                          k - 1)]]

\* Sd = Md / 4. / np.pi / dust_scale**2, line 1420, as exact fractions
SurfaceDensity(Md) ==
    [i \in DOMAIN Md |-> [k \in DOMAIN Md[i] |-> <<Md[i][k], FourPiScale2>>]]

\* np.random.seed(pop_dust_scatter_seed); Sd += noise_lognormal(Sd, sigma),
\* lines 1424-1430: arr + (arr * 10**n - arr)
ScatterDust(Sd, seed) ==
    [i \in DOMAIN Sd |->
        [k \in DOMAIN Sd[i] |->
            <<Sd[i][k][1] * (1 + Draw(seed)), Sd[i][k][2]>>]]

\* Sd *= g_per_msun / cm_per_kpc**2, line 1433
ToCgs(Sd) ==
    [i \in DOMAIN Sd |->
        [k \in DOMAIN Sd[i] |-> <<Sd[i][k][1] * CgsPerMsunKpc2, Sd[i][k][2]>>]]

\* the evolver for a duty-cycle mask off and the mask given by a quenching
\* function; both are read only when configured
GenGalaxyBody(off, qfun) ==
    IF ~bpf.native THEN [pc |-> "AssertionError", line |-> 1199, res |-> None]
    ELSE
    LET z == Flip1(halos.z)
        t == Flip1(halos.t)
        Mh == Flip2(halos.Mh)
        nh == Flip2(halos.nh)
        MAR == Flip2(halos.MAR)
        dt == [k \in 0..(Size(t) - 2) |-> Abs(t[k + 1] - t[k]) * YrPerMyr]
        SFR0 == IF halos.has_SFR THEN Flip2(halos.SFR)
                ELSE [i \in DOMAIN Mh |->
                        [k \in DOMAIN z |-> bpf.sfe * MAR[i][k] * bpf.fb]]
        SFR1 == IF bpf.fduty
                THEN [i \in DOMAIN SFR0 |->
                        [k \in DOMAIN z |-> IF off[i][k] THEN 0 ELSE SFR0[i][k]]]
                ELSE SFR0
    IN
    IF bpf.conserve_memory
    THEN [pc |-> "TypeError", line |-> 1315, res |-> None]
    ELSE
    LET Mstell == StellarMass(SFR1, dt, bpf.fml)
        above_Mmin == [i \in DOMAIN Mh |->
                         [k \in DOMAIN z |->
                             IF bpf.Mmin # 0 THEN Mh[i][k] >= bpf.Mmin
                             ELSE Mh[i][k] >= bpf.Mvir[z[k]]]]
        SFR2 == Masked(SFR1, above_Mmin)
        is_quenched ==
            [i \in DOMAIN Mh |->
                [k \in DOMAIN z |->
                    IF bpf.quench = "array"
                    THEN z[k] <= bpf.zreion[i] /\ Mh[i][k] < bpf.Mmin
                    ELSE qfun[i][k]]]
        SFR3 == IF bpf.quench = "none" THEN SFR2
                ELSE Masked(SFR2, [i \in DOMAIN Mh |->
                                     [k \in DOMAIN z |-> ~is_quenched[i][k]]])
        \* dust, lines 1372-1443; Md and Sd are the float 0. without dust
        dusty == bpf.dust # "none"
        Md == IF dusty THEN DustMass(SFR3, dt, bpf.fZy, bpf.fd) ELSE 0
        Sd0 == IF dusty THEN SurfaceDensity(Md) ELSE 0
        Sd1 == IF bpf.dust = "scatter" THEN ScatterDust(Sd0, bpf.dust_seed)
               ELSE Sd0
        Sd == IF dusty THEN ToCgs(Sd1) ELSE 0
        \* limit to the main branch, lines 1497-1513
        main_branch == {i \in DOMAIN Mh : halos.children[i] = -1}
        cols == DOMAIN z
    IN
    IF bpf.mergers = -1 /\ ~dusty
    THEN \* Md[main_branch==1] with Md = 0.
         [pc |-> "TypeError", line |-> 1507, res |-> None]
    ELSE
    LET lim == bpf.mergers = -1
        res0 == [nh |-> IF lim THEN Slice2(nh, main_branch, cols) ELSE nh,
                 Mh |-> IF lim THEN Slice2(Mh, main_branch, cols) ELSE Mh,
                 MAR |-> MAR, t |-> t, z |-> z,
                 SFR |-> IF lim THEN Slice2(SFR3, main_branch, cols)
                         ELSE SFR3,
                 Ms |-> IF lim THEN Slice2(Mstell, main_branch, cols)
                        ELSE Mstell,
                 Md |-> IF lim THEN Slice2(Md, main_branch, cols) ELSE Md,
                 Sd |-> IF lim THEN Slice2(Sd, main_branch, cols) ELSE Sd,
                 dt |-> dt,
                 rand |-> IF dusty THEN Flip2(halos.rand) ELSE None]
    IN [pc |-> "done", line |-> 0, res |-> res0]

\* _gen_galaxy_histories with pop_sample_cmf off
GenGalaxyHistories(off, qfun) ==
    /\ batch_pc = "idle"
    /\ \E r \in {GenGalaxyBody(off, qfun)} :
          /\ batch_pc' = r.pc
          /\ batch_line' = r.line
          /\ results' = r.res
    /\ UNCHANGED <<halos, bpf>>
    /\ UNCHANGED notBatch

BatchIdx == 0..(NumHalo - 1)

StepIdx == 0..(MaxZ - 1)

AllFalse == [i \in BatchIdx |-> [k \in StepIdx |-> FALSE]]

\* duty-cycle masks r >= fduty: nothing off, or one cell off
DutySet ==
    IF bpf.fduty
    THEN {AllFalse} \cup
         {[AllFalse EXCEPT ![i][k] = TRUE] : i \in BatchIdx, k \in StepIdx}
    ELSE {AllFalse}

\* masks of a quenching function of (z, Mh): quenched from some time on
QuenchSet ==
    IF bpf.quench = "function"
    THEN {[i \in BatchIdx |-> [k \in StepIdx |-> k >= q]] : q \in 0..MaxZ}
    ELSE {AllFalse}

BpfSet == [native : BOOLEAN, conserve_memory : BOOLEAN, fduty : BOOLEAN,
           Mmin : 0..MaxVal, Mvir : {[z \in 1..MaxZ |-> 1 + (z \div 2)]},
           quench : {"none", "array", "function"},
           zreion : [BatchIdx -> {0, 2}],
           sfe : {1}, fb : {1}, fml : 1..2,
           fZy : {1}, fd : {1}, dust : {"none", "yield", "scatter"},
           dust_seed : 0..1, mergers : {0, -1}]

\* the histories handed over by _gen_halo_histories: grid 1..MaxZ, ascending
InitBatch ==
    /\ \E m \in [BatchIdx -> 1..MaxVal], a \in [BatchIdx -> 0..MaxVal],
          hs \in BOOLEAN, c \in CosmSet, ch \in [BatchIdx -> {-1, 0}] :
          LET z == [j \in StepIdx |-> j + 1]
          IN halos = [z |-> z,
                      t |-> [j \in StepIdx |-> c[z[j]]],
                      Mh |-> [i \in BatchIdx |->
                                 [j \in StepIdx |-> m[i] * (MaxZ - j)]],
                      nh |-> [i \in BatchIdx |-> [j \in StepIdx |-> 1]],
                      MAR |-> [i \in BatchIdx |-> [j \in StepIdx |-> a[i]]],
                      has_SFR |-> hs,
                      children |-> ch,
                      rand |-> [i \in BatchIdx |-> [j \in StepIdx |-> 0]],
                      SFR |-> [i \in BatchIdx |->
                                  [j \in StepIdx |-> IF hs THEN a[i] ELSE 0]]]
    /\ bpf \in BpfSet
    \* a quenching array needs pop_Mmin; inputs never read are not varied
    /\ (bpf.quench = "array") => bpf.Mmin # 0
    /\ (bpf.quench # "array") => \A i \in BatchIdx : bpf.zreion[i] = 0
    /\ (~bpf.native \/ bpf.conserve_memory) =>
           /\ ~bpf.fduty /\ bpf.Mmin = 0 /\ bpf.quench = "none" /\ bpf.fml = 1
           /\ ~(~bpf.native /\ bpf.conserve_memory)
    \* the parent pointers are read only when limiting to the main branch,
    \* the seed only with dust scatter
    /\ (bpf.mergers # -1) => \A i \in BatchIdx : halos.children[i] = -1
    /\ (bpf.dust # "scatter") => bpf.dust_seed = 0
    \* dust and the main branch are tried on the plain evolver
    /\ (bpf.dust # "none" \/ bpf.mergers # 0) =>
           /\ bpf.native /\ ~bpf.conserve_memory /\ ~halos.has_SFR
           /\ ~bpf.fduty /\ bpf.Mmin = 1 /\ bpf.quench = "none"
           /\ bpf.fml = 1
    /\ batch_pc = "idle"
    /\ batch_line = 0
    /\ results = None

BatchOff ==
    /\ halos = None /\ bpf = None /\ batch_pc = "off" /\ batch_line = 0
    /\ results = None

NextBatch ==
    \E off \in DutySet, qfun \in QuenchSet : GenGalaxyHistories(off, qfun)

\* ======================================================================
\* _gen_galaxy_history(halo, zobs), lines 948-1142: one trajectory of the
\* stochastic engine, with pop_multiphase off
\* ======================================================================

\* cosm.fbar_over_fcdm, line 979, in model units
FbarOverFcdm == 1

\* an accumulator that keeps the array object of the call before
SameAccumulator(t, old) == old

\* zeros_like_t.copy(), lines 971-976: a new array of zeros replaces old
NewAccumulator(t, old) == [k \in DOMAIN t |-> 0]

\* max(z[Mh_s > 0]), line 985; called only when some Mh_s is positive
Zform(z, Mh_s) ==
    LET P == {k \in DOMAIN Mh_s : Mh_s[k] > 0}
    IN z[CHOOSE k \in P : \A m \in P : z[m] <= z[k]]

\* the dictionary of lines 1121-1136.  Ms and Msc are written only at lines
\* 1113-1114 and are still the zeros of lines 988-989 at every return.
HistData ==
    [SFR |-> hist_SFR, Mg |-> arr_Mg_t, Mg_c |-> arr_Mg_c,
     Ms |-> [k \in TimeIdx |-> 0], Mh |-> Flip1(hist_halo.Mh),
     z |-> Flip1(hist_halo.z), t |-> arr_t]

\* entry of _gen_galaxy_history, lines 962-1020.  The call before, if any,
\* has returned or raised; its locals are gone.
GenGalaxyHistory(halo, zobs, eq) ==
    /\ hist_pc \in {"idle", "returned", "NameError", "AssertionError",
                    "ValueError"}
    /\ hist_halo' = halo
    /\ hist_zobs' = zobs
    /\ hist_eq' = eq
    /\ left_SN' = (\E k \in TimeIdx : arr_SN[k] > 0)
    /\ own_SN' = [k \in TimeIdx |-> 0]
    /\ arr_t' = Flip1(halo.t)
    /\ arr_SN' = NewAccumulator(halo.t, arr_SN)
    /\ arr_UV' = NewAccumulator(halo.t, arr_UV)
    /\ arr_Mg_c' = NewAccumulator(halo.t, arr_Mg_c)
    /\ arr_Mg_t' = NewAccumulator(halo.t, arr_Mg_t)
    /\ SN_at_call' = arr_SN'
    /\ hist_SFR' = [k \in TimeIdx |-> <<0, 1>>]
    /\ hist_i' = 0
    /\ hist_ret' = None
    /\ IF ~NonDecreasing(Flip1(halo.t))
       THEN hist_pc' = "AssertionError" /\ hist_line' = 983
       ELSE IF \A k \in TimeIdx : halo.Mh[k] = 0
       THEN hist_pc' = "ValueError" /\ hist_line' = 985
       ELSE hist_pc' = "step" /\ hist_line' = 0
    /\ pc' = "idle"
    /\ idnum' = 0 /\ Mg' = 0 /\ Ms' = 0 /\ Mw' = 0 /\ Mw_rad' = 0
    /\ N_SN_0' = 0 /\ N_SN_p' = 0 /\ E_UV_0' = 0 /\ E_UV_p' = 0
    /\ N_MS' = 0 /\ Mc' = 0 /\ ct' = 0 /\ ret' = NoRet /\ drawn' = 0
    /\ UNCHANGED <<pf, avg_delay, wsn, wuv, hist_mp, hist_tdyn>>
    /\ UNCHANGED notHist

\* deposit_in(tnow, delay), lines 934-946: the index of the time array in
\* which to deposit, given the current time and the delay
DepositIn(t, tnow, delay) ==
    LET inow == CHOOSE k \in TimeIdx :
                    /\ \A m \in TimeIdx : Abs(tnow - t[k]) <= Abs(tnow - t[m])
                    /\ \A m \in TimeIdx :
                           m < k => Abs(tnow - t[m]) > Abs(tnow - t[k])
    IN inow + ArgMinFuture(t, inow, delay)

\* dt of line 1033, in years
HistDt(i) == (arr_t[i + 1] - arr_t[i]) * YrPerMyr

\* Macc of line 1069; a MAR cell is <<numerator, denominator>>
Macc(i) ==
    LET MAR == Flip1(hist_halo.MAR)
    IN (FbarOverFcdm * (MAR[i + 1][1] + MAR[i][1]) * HistDt(i))
           \div (2 * MAR[i][2])

\* one pass of the loop of line 1021 up to the call of _gen_stars at line
\* 1082, or the end of the loop and the return of line 1142
HistoryStep ==
    /\ hist_pc = "step"
    /\ LET i == hist_i
           z == Flip1(hist_halo.z)
           Mh_s == Flip1(hist_halo.Mh)
           \* the slot that takes the gas supply: ifut in multi-phase mode
           ifut == IF hist_mp THEN DepositIn(arr_t, arr_t[i], hist_tdyn)
                   ELSE i
       IN IF i = NumT \/ (Mh_s[i] # 0 /\ (z[i] < hist_zobs \/ i = NumT - 1))
          THEN \* the loop is over or left by break: lines 1119-1142
               /\ hist_pc' = "returned"
               /\ hist_ret' = HistData
               /\ UNCHANGED <<hist_i, hist_line, hist_SFR, arr_Mg_c,
                              arr_Mg_t>>
          ELSE IF Mh_s[i] = 0
          THEN \* continue, line 1024
               /\ hist_i' = i + 1
               /\ UNCHANGED <<hist_pc, hist_ret, hist_line, hist_SFR,
                              arr_Mg_c, arr_Mg_t>>
          ELSE \E Mg_t \in {IF z[i] = Zform(z, Mh_s)
                            THEN [arr_Mg_t EXCEPT ![i] = FbarOverFcdm * Mh_s[i]]
                            ELSE arr_Mg_t} :
               /\ arr_Mg_t' = Mg_t
               /\ UNCHANGED <<hist_i, hist_ret>>
               /\ IF hist_eq
                  THEN \* lines 1059-1061: Mg and Macc are not defined
                       /\ arr_Mg_c' = [arr_Mg_c EXCEPT ![ifut] = Mg_t[i]]
                       /\ hist_SFR' = [hist_SFR EXCEPT ![i] =
                              <<FbarOverFcdm * Flip1(hist_halo.MAR)[i][1],
                                2 * Flip1(hist_halo.MAR)[i][2]>>]
                       /\ hist_pc' = "NameError" /\ hist_line' = 1061
                  ELSE \* lines 1038-1043, then 1072-1077
                       /\ arr_Mg_c' =
                              [arr_Mg_c EXCEPT ![ifut] = Mg_t[i] + Macc(i)]
                       /\ hist_pc' = "stars"
                       /\ UNCHANGED <<hist_SFR, hist_line>>
    /\ UNCHANGED <<hist_halo, hist_zobs, hist_eq, hist_mp, hist_tdyn,
                   left_SN, own_SN>>
    /\ UNCHANGED <<pf, arr_t, arr_SN, arr_UV, avg_delay, wsn, wuv, pc,
                   idnum, Mg, Ms, Mw, Mw_rad, N_SN_0, N_SN_p, E_UV_0, E_UV_p,
                   N_MS, Mc, ct, ret, SN_at_call, drawn>>
    /\ UNCHANGED notHist

\* the call self._gen_stars(i, _Mh) of line 1082
HistoryCallStars ==
    /\ hist_pc = "stars"
    /\ GenStarsCall(hist_i)

\* lines 1084-1116 after _gen_stars has returned: line 1112 assigns to imf,
\* a name that is bound nowhere in the function (its definition at line 997
\* is a comment)
HistoryAfterStars ==
    /\ hist_pc = "stars"
    /\ pc = "done"
    /\ LET i == hist_i
           left == arr_Mg_t[i] + Macc(i) - ret.Ms - ret.Mw
       IN /\ arr_Mg_t' = [arr_Mg_t EXCEPT ![i + 1] =
                             IF left > 0 THEN left ELSE 0]
          /\ hist_SFR' = [hist_SFR EXCEPT ![i] = <<ret.Ms, HistDt(i)>>]
    /\ hist_pc' = "NameError" /\ hist_line' = 1112
    /\ own_SN' = [k \in TimeIdx |-> own_SN[k] + arr_SN[k] - SN_at_call[k]]
    \* the frame of _gen_stars and its locals are gone
    /\ pc' = "idle"
    /\ idnum' = 0 /\ Mg' = 0 /\ Ms' = 0 /\ Mw' = 0 /\ Mw_rad' = 0
    /\ N_SN_0' = 0 /\ N_SN_p' = 0 /\ E_UV_0' = 0 /\ E_UV_p' = 0
    /\ N_MS' = 0 /\ Mc' = 0 /\ ct' = 0 /\ ret' = NoRet /\ drawn' = 0
    /\ SN_at_call' = arr_SN
    /\ UNCHANGED <<hist_halo, hist_zobs, hist_eq, hist_mp, hist_tdyn, hist_i,
                   hist_ret, left_SN>>
    \* lines 1088-1101
    /\ arr_Mg_c' = IF hist_mp /\ arr_Mg_c[hist_i + 1] < 0
                   THEN [arr_Mg_c EXCEPT ![hist_i + 1] = 0]
                   ELSE arr_Mg_c
    /\ UNCHANGED <<pf, arr_t, arr_SN, arr_UV, avg_delay, wsn, wuv>>
    /\ UNCHANGED notHist

\* the time grids handed in, in order of ascending redshift: ascending in
\* time with steps of d
HistGrid(d) == [k \in TimeIdx |-> d * (NumT - 1 - k)]

\* a trajectory: redshifts 1..NumT, halo masses m, one accretion rate a
HistHalo(t, m, a) ==
    [z |-> [k \in TimeIdx |-> k + 1], t |-> t, Mh |-> m,
     MAR |-> [k \in TimeIdx |-> <<a, YrPerMyr>>]]

\* the calls made: <<halo, zobs, E_h > 1e51 * pop_force_equilibrium>>.
\* What a call never reads before it ends is not varied.
HistCallSet ==
    LET some == {m \in [TimeIdx -> 0..1] : \E k \in TimeIdx : m[k] > 0}
    IN  \* a grid that descends in time: line 983
        {<<HistHalo(Flip1(HistGrid(1)), [k \in TimeIdx |-> 1], 0), 0, FALSE>>}
        \* no halo mass anywhere: line 985
        \cup {<<HistHalo(HistGrid(1), [k \in TimeIdx |-> 0], 0), 0, FALSE>>}
        \cup {<<HistHalo(HistGrid(d), m, a), 0, FALSE>> :
                  d \in {1, MaxStep}, m \in some, a \in {0, 2}}
        \* a halo that loses mass: the accretion rate is negative
        \cup {<<HistHalo(HistGrid(1), m, -2), 0, FALSE>> : m \in some}
        \cup {<<HistHalo(HistGrid(d), m, 0), NumT, FALSE>> :
                  d \in {1, MaxStep}, m \in some}
        \cup {<<HistHalo(HistGrid(d), m, 0), 0, TRUE>> :
                  d \in {1, MaxStep}, m \in some}

HistOff ==
    /\ hist_halo = None /\ hist_zobs = 0 /\ hist_eq = FALSE
    /\ hist_mp = FALSE /\ hist_tdyn = 0
    /\ hist_pc = "off" /\ hist_line = 0 /\ hist_i = 0
    /\ arr_Mg_t = [k \in TimeIdx |-> 0]
    /\ hist_SFR = None /\ hist_ret = None
    /\ left_SN = FALSE /\ own_SN = None

\* the object after construction: no trajectory evolved yet
InitHist ==
    /\ pf \in {p \in PfSet : /\ ~p.sample_imf /\ ~p.feedback_rad
                             /\ p.delay_rad = 0 /\ p.delay_sne \in 0..1}
    /\ avg_delay \in 1..MaxDelay
    /\ (pf.delay_sne # 1) => avg_delay = 1
    /\ wsn \in 1..MaxWind
    /\ wuv = 0
    /\ arr_t = [k \in TimeIdx |-> 0]
    /\ arr_SN = [k \in TimeIdx |-> 0]
    /\ arr_UV = [k \in TimeIdx |-> 0]
    /\ arr_Mg_c = [k \in TimeIdx |-> 0]
    /\ arr_Mg_t = [k \in TimeIdx |-> 0]
    /\ pc = "idle"
    /\ idnum = 0 /\ Mg = 0 /\ Ms = 0 /\ Mw = 0 /\ Mw_rad = 0
    /\ N_SN_0 = 0 /\ N_SN_p = 0 /\ E_UV_0 = 0 /\ E_UV_p = 0
    /\ N_MS = 0 /\ Mc = 0 /\ ct = 0
    /\ ret = NoRet
    /\ SN_at_call = arr_SN
    /\ drawn = 0
    /\ hist_halo = None /\ hist_zobs = 0 /\ hist_eq = FALSE
    /\ hist_mp \in BOOLEAN
    /\ hist_tdyn \in {0, MaxStep}
    \* inputs that the configuration never reads are not varied
    /\ ~hist_mp => hist_tdyn = 0
    /\ hist_mp => (pf.delay_sne = 0 /\ pf.fstar_num = 1)
    /\ hist_pc = "idle" /\ hist_line = 0 /\ hist_i = 0
    /\ hist_SFR = None /\ hist_ret = None
    /\ left_SN = FALSE /\ own_SN = None

NextHist ==
    \/ \E c \in HistCallSet : GenGalaxyHistory(c[1], c[2], c[3])
    \/ HistoryStep
    \/ HistoryCallStars
    \/ \E mc \in TabMcl, n \in 0..MaxNMS : \E delays \in DelaySet(n) :
           Cluster(mc, n, delays)
    \/ GenStarsReturn
    \/ HistoryAfterStars

\* ======================================================================
\* The draws of _gen_stars from numpy's global generator, lines 747-792,
\* with pop_sample_imf off and delay mode 0 or 1
\* ======================================================================

\* a generator that is reseeded from the number of calls made so far
ReseededState(g, calls) == (g + calls) % GenPeriod

\* the state np.random.rand and np.random.poisson read: that of the global
\* generator, however many calls of _gen_stars came before
RandomState(g, calls) == g

\* each draw moves the generator on by one state
NextState(g) == (g + 1) % GenPeriod

\* Mc = np.interp(np.random.rand(), self.tab_cdf, self.tab_Mcl), lines
\* 747-748, as a function of the generator state
RandMc(g) == 1 + (g % MaxMc)

\* N_MS = np.random.poisson(Mc * nsn_per_m), lines 791-792, as a function
\* of the generator state and the mean
RandPoisson(g, mc) == (g + mc) % (MaxNMS + 1)

\* the caller fixes the timestep and notes the state of the generator and
\* of the accumulator before the call
SeqBegin(i) ==
    /\ seq_pc = "ready"
    /\ pc = "idle"
    /\ seq_pc' = "first"
    /\ seq_i' = i
    /\ gen_at_call' = gen
    /\ UNCHANGED <<gen, seq_n, seq_mc, seq_nms, seq_trace, seq_calls,
                   first_run>>
    /\ UNCHANGED starsVars
    /\ UNCHANGED notSeq

\* the call self._gen_stars(i, Mh)
SeqCallStars ==
    /\ seq_pc \in {"first", "second"}
    /\ GenStarsCall(seq_i)

\* lines 747-792 of one pass: the cluster mass is drawn, and the number of
\* massive stars unless the pass ends in the break of line 753
SeqDraw ==
    /\ pc = "loop"
    /\ LoopCond
    /\ seq_n = ct
    /\ LET g == RandomState(gen, seq_calls)
           mc == RandMc(g)
       IN /\ seq_mc' = mc
          /\ seq_trace' = Append(seq_trace, mc)
          /\ IF Overshoots(Ms, mc, Mw, Mg)
             THEN gen' = NextState(g) /\ seq_nms' = 0
             ELSE /\ seq_nms' = RandPoisson(NextState(g), mc)
                  /\ gen' = NextState(NextState(g))
    /\ seq_n' = ct + 1
    /\ UNCHANGED <<seq_pc, seq_i, gen_at_call, seq_calls, first_run>>
    /\ UNCHANGED starsVars
    /\ UNCHANGED notSeq

\* the rest of the pass with what was drawn
SeqCluster ==
    /\ seq_n = ct + 1
    /\ Cluster(seq_mc, seq_nms, <<>>)

\* the first call has returned: its results are noted, the generator and
\* the accumulator are put back to their state before the call
SeqRestore ==
    /\ seq_pc = "first"
    /\ pc = "done"
    /\ first_run' = [trace |-> seq_trace, Ms |-> ret.Ms, Mw |-> ret.Mw]
    /\ gen' = gen_at_call
    /\ arr_SN' = SN_at_call
    /\ pc' = "idle"
    /\ seq_pc' = "second"
    /\ seq_calls' = seq_calls + 1
    /\ seq_trace' = <<>>
    /\ seq_n' = 0
    /\ UNCHANGED <<seq_i, gen_at_call, seq_mc, seq_nms>>
    /\ UNCHANGED <<pf, arr_t, arr_UV, arr_Mg_c, avg_delay, wsn, wuv,
                   idnum, Mg, Ms, Mw, Mw_rad, N_SN_0, N_SN_p, E_UV_0, E_UV_p,
                   N_MS, Mc, ct, ret, SN_at_call, drawn>>
    /\ UNCHANGED notSeq

SeqOff ==
    /\ gen = 0 /\ gen_at_call = 0 /\ seq_pc = "off" /\ seq_i = 0
    /\ seq_n = 0 /\ seq_mc = 0 /\ seq_nms = 0 /\ seq_trace = <<>>
    /\ seq_calls = 0 /\ first_run = None

InitSeq ==
    /\ InitStars
    /\ ~pf.sample_imf /\ pf.delay_sne \in 0..1
    /\ gen \in 0..(GenPeriod - 1)
    /\ gen_at_call = 0 /\ seq_pc = "ready" /\ seq_i = 0
    /\ seq_n = 0 /\ seq_mc = 0 /\ seq_nms = 0 /\ seq_trace = <<>>
    /\ seq_calls = 0 /\ first_run = None

NextSeq ==
    \/ \E i \in 0..(NumT - 2) : SeqBegin(i)
    \/ SeqCallStars
    \/ SeqDraw
    \/ SeqCluster
    \/ GenStarsReturn
    \/ SeqRestore

\* ======================================================================
\* The mean over seeds of the log-normal scatter, lines 224-229 and 376-382
\* ======================================================================
\* For n drawn by np.random.normal(scale=sigma), the mean of b**n is
\* exp(0.5 * sigma**2 * ln(b)**2).  A mean of the form a * exp(0.5 * e / 1000)
\* is held as the pair [val |-> a, expo |-> e].

\* ln(10)**2 in thousandths: np.power(10, ...) of line 227
LnTenSqMilli == 5302

\* ln(e)**2 in thousandths: np.exp of line 381
LnESqMilli == 1000

\* mean over seeds of arr + noise_lognormal(arr, sigma) for a constant arr:
\* arr + (10**(log10(arr) + n) - arr) = arr * 10**n, lines 225-228 and 379
MeanAfterNoise(arr, sigma) ==
    [val |-> arr, expo |-> sigma * sigma * LnTenSqMilli]

\* mar /= np.exp(0.5 * sigma_mar**2), line 381
MeanAfterDivision(m, sigma) ==
    [val |-> m.val, expo |-> m.expo - sigma * sigma * LnESqMilli]

\* mar += noise, lines 378-379
AddLognormalNoise ==
    /\ ln_pc = "idle"
    /\ ln_mean' = MeanAfterNoise(ln_arr, ln_sigma)
    /\ ln_pc' = "noised"
    /\ UNCHANGED <<ln_arr, ln_sigma>>
    /\ UNCHANGED notLn

\* the division of line 381
DivideByCorrection ==
    /\ ln_pc = "noised"
    /\ ln_mean' = MeanAfterDivision(ln_mean, ln_sigma)
    /\ ln_pc' = "normalized"
    /\ UNCHANGED <<ln_arr, ln_sigma>>
    /\ UNCHANGED notLn

LnOff ==
    /\ ln_arr = 0 /\ ln_sigma = 0 /\ ln_pc = "off" /\ ln_mean = None

\* a constant positive array and sigma > 0, in units that make them whole
InitLn ==
    /\ ln_arr \in 1..MaxArr
    /\ ln_sigma \in 1..MaxSigma
    /\ ln_pc = "idle"
    /\ ln_mean = [val |-> ln_arr, expo |-> 0]

NextLn == AddLognormalNoise \/ DivideByCorrection

\* ======================================================================
\* LuminosityFunction and StellarMassFunction with their caches,
\* lines 1585-1629, 1709-1765 and 2021-2090
\* ======================================================================
\* What the collaborators compute (Luminosity, the histograms) is held by
\* what it was computed from: two values are equal when their arguments are.

QueryZ == 1..2

QueryWave == {1600}

QueryBand == {"none", "filter"}

QueryWindow == 1..2

\* the default bin centres of line 1610 and two arrays of bins
DefaultBins == <<6, 7, 8>>

QueryBins == {None, <<8, 9>>, <<8, 10>>}

QueryUnits == {"dex", "other"}

\* the key of self._cache_lf_, lines 1713 and 2088
LfKey(z, wave, window, band) == <<z, wave>>

\* the keys that can be in the dictionary self._cache_lf_
LfKeySet == {LfKey(z, wave, window, band) :
                z \in QueryZ, wave \in QueryWave, window \in QueryWindow,
                band \in QueryBand}

\* lines 2036-2086: bin_c, phi from Luminosity(z, wave, band, window)
ComputeLF(z, wave, window, band) ==
    [x |-> "mag_bins",
     phi |-> [z |-> z, wave |-> wave, window |-> window, band |-> band]]

\* _cache_lf(z, None, wave) on a hit, lines 1715-1719
LookupLF(entry) == entry

\* lines 1603-1625: bin_c, phi from the histogram of Ms in the bins, or the
\* raise of line 1625 (err)
ComputeSMF(z, bins, units) ==
    LET bin_c == IF bins = None THEN DefaultBins ELSE bins
    IN [err |-> units # "dex", x |-> bin_c,
        phi |-> [how |-> "hist", z |-> z, x |-> bin_c, at |-> bin_c]]

\* _cache_smf(z, Ms) on a hit, lines 1747-1763: the cached phi, or its
\* interpolation at the masses asked for
LookupSMF(entry, logMs) ==
    IF logMs = None THEN entry.phi
    ELSE IF Len(entry.x) = Len(logMs) /\ entry.x = logMs THEN entry.phi
    ELSE [entry.phi EXCEPT !.how = "interp", !.at = logMs]

\* LuminosityFunction(z, None, wave=wave, window=window, band=band)
LuminosityFunction(z, wave, window, band) ==
    /\ q_pc = "idle"
    /\ q_call' = [f |-> "lf", z |-> z, wave |-> wave, window |-> window,
                  band |-> band]
    /\ LET key == LfKey(z, wave, window, band)
       IN IF cache_lf_[key] # None
          THEN /\ q_ret' = [raised |-> FALSE,
                             val |-> LookupLF(cache_lf_[key])]
               /\ UNCHANGED cache_lf_
          ELSE \E e \in {ComputeLF(z, wave, window, band)} :
                  /\ cache_lf_' = [cache_lf_ EXCEPT ![key] = e]
                  /\ q_ret' = [raised |-> FALSE, val |-> LookupLF(e)]
    /\ UNCHANGED <<cache_smf_, q_pc>>
    /\ UNCHANGED notCache

\* StellarMassFunction(z, bins, units)
StellarMassFunction(z, bins, units) ==
    /\ q_pc = "idle"
    /\ q_call' = [f |-> "smf", z |-> z, bins |-> bins, units |-> units]
    /\ IF cache_smf_[z] # None
       THEN /\ q_ret' = [raised |-> FALSE,
                          val |-> LookupSMF(cache_smf_[z], bins)]
            /\ UNCHANGED cache_smf_
       ELSE \E e \in {ComputeSMF(z, bins, units)} :
               IF e.err
               THEN /\ q_ret' = [raised |-> TRUE, val |-> None]
                    /\ UNCHANGED cache_smf_
               ELSE /\ cache_smf_' = [cache_smf_ EXCEPT ![z] =
                                          [x |-> e.x, phi |-> e.phi]]
                    /\ q_ret' = [raised |-> FALSE,
                                 val |-> LookupSMF(e, e.x)]
    /\ UNCHANGED <<cache_lf_, q_pc>>
    /\ UNCHANGED notCache

CacheOff ==
    /\ cache_lf_ = None /\ cache_smf_ = None /\ q_pc = "off"
    /\ q_call = None /\ q_ret = None

\* the object before any query: both dictionaries empty
InitCache ==
    /\ cache_lf_ = [k \in LfKeySet |-> None]
    /\ cache_smf_ = [z \in QueryZ |-> None]
    /\ q_pc = "idle"
    /\ q_call = None /\ q_ret = None

NextCache ==
    \/ \E z \in QueryZ, wave \in QueryWave, window \in QueryWindow,
          band \in QueryBand : LuminosityFunction(z, wave, window, band)
    \/ \E z \in QueryZ, bins \in QueryBins, units \in QueryUnits :
           StellarMassFunction(z, bins, units)

\* ======================================================================
\* Burst-mode duty cycle of _gen_galaxy_histories, lines 1266-1305
\* (pop_fduty and pop_fduty_dt both set)
\* ======================================================================
\* The time grid has NumT points.  fduty_avg[i] is a fraction in [0, 1],
\* counted in units of 1 / DutyDen.  The local ct of lines 1298-1303 is
\* written and never read; it is left out.

\* i_on = int(T_on / dt_myr[0]), line 1281
IOn == duty_Ton \div duty_dt

\* on[i].sum(), line 1299
OnSum(i) == Cardinality({k \in TimeIdx : duty_on[i][k]})

\* (on[i].sum() / Nt) < fduty_avg[i], line 1299
BelowTarget(i) == OnSum(i) * DutyDen < duty_favg[i] * NumT

\* on = np.zeros_like(Mh, dtype=bool), line 1286, and the start of the loop
\* over the trajectories
DutyBegin ==
    /\ duty_pc = "idle"
    /\ duty_on' = [i \in 0..(NumHalo - 1) |-> [k \in TimeIdx |-> FALSE]]
    /\ duty_i' = 0
    /\ duty_pc' = "for"
    /\ UNCHANGED <<duty_Ton, duty_dt, duty_favg, duty_sfr0>>
    /\ UNCHANGED <<starsVars, tileVars, haloVars, batchVars, regenVars,
                   histVars, seqVars, lnVars, cacheVars, phpVars, setVars>>

\* one pass of the for loop of line 1288 up to its while loop, or the end
\* of the for loop (off = np.logical_not(on), line 1305)
DutyFor ==
    /\ duty_pc = "for"
    /\ IF duty_i = NumHalo
       THEN duty_pc' = "done" /\ UNCHANGED <<duty_on, duty_i>>
       ELSE IF duty_sfr0[duty_i]
       THEN \* continue, line 1291
            duty_i' = duty_i + 1 /\ UNCHANGED <<duty_on, duty_pc>>
       ELSE IF duty_favg[duty_i] = DutyDen
       THEN \* on[i,:] = True, line 1297
            /\ duty_on' = [duty_on EXCEPT ![duty_i] = [k \in TimeIdx |-> TRUE]]
            /\ duty_i' = duty_i + 1
            /\ UNCHANGED duty_pc
       ELSE duty_pc' = "while" /\ UNCHANGED <<duty_on, duty_i>>
    /\ UNCHANGED <<duty_Ton, duty_dt, duty_favg, duty_sfr0>>
    /\ UNCHANGED <<starsVars, tileVars, haloVars, batchVars, regenVars,
                   histVars, seqVars, lnVars, cacheVars, phpVars, setVars>>

\* one pass of the while loop, lines 1300-1304, with j the index drawn by
\* np.random.randint(low=0, high=int(Nt)): on[i, j:j+i_on] = True
DutyPlace(j) ==
    /\ duty_pc = "while"
    /\ BelowTarget(duty_i)
    /\ duty_on' = [duty_on EXCEPT ![duty_i] =
                      [k \in TimeIdx |-> @[k] \/ (j <= k /\ k < j + IOn)]]
    /\ UNCHANGED <<duty_Ton, duty_dt, duty_favg, duty_sfr0, duty_i, duty_pc>>
    /\ UNCHANGED <<starsVars, tileVars, haloVars, batchVars, regenVars,
                   histVars, seqVars, lnVars, cacheVars, phpVars, setVars>>

\* the while condition of line 1299 fails: on to the next trajectory
DutyExit ==
    /\ duty_pc = "while"
    /\ ~BelowTarget(duty_i)
    /\ duty_i' = duty_i + 1
    /\ duty_pc' = "for"
    /\ UNCHANGED <<duty_Ton, duty_dt, duty_favg, duty_sfr0, duty_on>>
    /\ UNCHANGED <<starsVars, tileVars, haloVars, batchVars, regenVars,
                   histVars, seqVars, lnVars, cacheVars, phpVars, setVars>>

DutyOff ==
    /\ duty_Ton = 1 /\ duty_dt = 1
    /\ duty_favg = <<>> /\ duty_sfr0 = <<>> /\ duty_on = <<>>
    /\ duty_i = 0 /\ duty_pc = "off"

\* the evolver is about to apply the duty cycle
InitDuty ==
    /\ duty_Ton \in 1..MaxTon
    /\ duty_dt \in 1..MaxStep
    /\ duty_favg \in [0..(NumHalo - 1) -> 0..DutyDen]
    /\ duty_sfr0 \in [0..(NumHalo - 1) -> BOOLEAN]
    \* inputs that the run never reads are not varied
    /\ \A i \in 0..(NumHalo - 1) : duty_sfr0[i] => duty_favg[i] = 0
    /\ duty_on = [i \in 0..(NumHalo - 1) |-> [k \in TimeIdx |-> FALSE]]
    /\ duty_i = 0
    /\ duty_pc = "idle"

NextDuty ==
    \/ DutyBegin
    \/ DutyFor
    \/ \E j \in TimeIdx : DutyPlace(j)
    \/ DutyExit

\* ======================================================================
\* ParameterizedHaloProperty._call and its guard _apply_extrap
\* (ares/util/ParameterizedHaloProperty.py, lines 87-178)
\* ======================================================================
\* The value of a call is recorded by the terms that went into it: the
\* mass function f, the low-mass term to_add and the high-mass factor
\* to_mult ("none" for to_add = 0.0 and to_mult = 1.0).

\* php_Mfun, php_Mfun_lo, php_Mfun_hi; "None" is the value None
PhpPfSet ==
    [Mfunc : {"lognormal", "pl", "dpl", "plsum2", "pwpl", "user", "poly",
              "other"},
     lo : {"None", "pl", "plexp", "dpl", "other"},
     hi : {"None", "exp", "pl", "other"}]

PhpValue(f, add, mult) ==
    [kind |-> "value", f |-> f, to_add |-> add, to_mult |-> mult]

PhpRaised(kind) ==
    [kind |-> kind, f |-> "none", to_add |-> "none", to_mult |-> "none"]

\* _call, lines 108-178, for a property with parameters p and the guard
\* at value g: the guard it leaves and what the caller gets
call(p, g) ==
    IF p.Mfunc = "pwpl"
    THEN \* returns at lines 132-138
         [guard |-> g, ret |-> PhpValue("pwpl", "none", "none")]
    ELSE IF p.Mfunc \in {"poly", "other"}
    THEN \* raise NotImplemented(...), lines 142 and 144: NotImplemented is
         \* not callable
         [guard |-> g, ret |-> PhpRaised("TypeError")]
    ELSE IF g = 0
    THEN \* line 148 is false
         [guard |-> g, ret |-> PhpValue(p.Mfunc, "none", "none")]
    ELSE IF p.lo = "dpl"
    THEN \* line 149 has run; line 162 reads p4, which no branch that
         \* gets here has bound
         [guard |-> 0, ret |-> PhpRaised("NameError")]
    ELSE \* lines 149-173
         [guard |-> 1,
          ret |-> PhpValue(p.Mfunc,
                           IF p.lo \in {"pl", "plexp"} THEN p.lo ELSE "none",
                           IF p.hi \in {"exp", "pl"} THEN p.hi ELSE "none")]

\* a top-level call, __call__ (lines 97-106)
PhpCall ==
    /\ php_pc = "idle"
    /\ \E r \in {call(php_pf, apply_extrap_)} :
          /\ apply_extrap_' = r.guard
          /\ php_ret' = r.ret
          /\ php_pc' = IF r.ret.kind = "value" THEN "returned" ELSE "raised"
    /\ UNCHANGED php_pf
    /\ UNCHANGED <<starsVars, tileVars, haloVars, batchVars, regenVars,
                   histVars, seqVars, lnVars, cacheVars, dutyVars, setVars>>

\* control is back at the caller, which uses the value or handles the
\* error, and may call again
PhpBack ==
    /\ php_pc \in {"returned", "raised"}
    /\ php_pc' = "idle"
    /\ UNCHANGED <<php_pf, apply_extrap_, php_ret>>
    /\ UNCHANGED <<starsVars, tileVars, haloVars, batchVars, regenVars,
                   histVars, seqVars, lnVars, cacheVars, dutyVars, setVars>>

PhpOff ==
    /\ php_pf = None /\ apply_extrap_ = 1 /\ php_pc = "off" /\ php_ret = None

\* a new property: _apply_extrap_ is not set, the getter of lines 87-91
\* gives 1
InitPhp ==
    /\ php_pf \in PhpPfSet
    /\ apply_extrap_ = 1
    /\ php_pc = "idle"
    /\ php_ret = None

NextPhp ==
    \/ PhpCall
    \/ PhpBack

\* ======================================================================
\* The setter of the property histories, lines 482-502, and the callers
\* that hand it a dictionary (lines 1184-1191 and 1552)
\* ======================================================================
\* A dictionary is a record.  Its entries z, t and zthin are 1-D arrays
\* over the grid, Mh is a 2-D array (trajectory, grid), pos is None.

Array1Keys == {"z", "t", "zthin"}

Array2Keys == {"Mh"}

\* value[key][-1::-1] for a 1-D array, value[key][:,-1::-1] otherwise;
\* entries that are no ndarray are skipped (lines 493-499)
FlipEntry(key, v) ==
    IF key \in Array1Keys THEN [k \in DOMAIN v |-> v[Size(v) - 1 - k]]
    ELSE IF key \in Array2Keys
    THEN [i \in DOMAIN v |-> [k \in DOMAIN v[i] |-> v[i][Size(v[i]) - 1 - k]]]
    ELSE v

MustFlipAlways(value) == TRUE

\* must_flip, lines 486-489
MustFlip(value) == "z" \in DOMAIN value /\ StrictlyAscending(value.z)

\* the setter: what it stores in self._histories
histories(value) ==
    IF MustFlip(value)
    THEN [key \in DOMAIN value |-> FlipEntry(key, value[key])]
    ELSE value

\* the dictionaries a caller or a user hands over: any grid of 1..NumT
\* redshifts, with or without the entry z
HistDictSet ==
    UNION {UNION {{[z |-> z, t |-> [k \in DOMAIN z |-> MaxZ - z[k]],
                    Mh |-> [i \in 0..(rows - 1) |-> [k \in DOMAIN z |-> i + k]],
                    pos |-> None],
                   [t |-> [k \in DOMAIN z |-> MaxZ - z[k]],
                    Mh |-> [i \in 0..(rows - 1) |-> [k \in DOMAIN z |-> i + k]],
                    pos |-> None]} :
                  z \in [0..(n - 1) -> 0..MaxZ]} :
           n \in 1..NumT, rows \in 0..NumHalo}

\* self.histories = value on an object that holds no histories yet (what
\* the setter stores does not depend on what the object held)
SetHistories(value) ==
    /\ set_pc = "idle"
    /\ set_arg' = value
    /\ histories_' = histories(value)
    /\ set_pc' = "set"
    /\ UNCHANGED <<starsVars, tileVars, haloVars, batchVars, regenVars,
                   histVars, seqVars, lnVars, cacheVars, dutyVars, phpVars>>

\* self.histories = self.histories
SetAgain ==
    /\ set_pc = "set"
    /\ histories_' = histories(histories_)
    /\ set_pc' = "again"
    /\ UNCHANGED set_arg
    /\ UNCHANGED <<starsVars, tileVars, haloVars, batchVars, regenVars,
                   histVars, seqVars, lnVars, cacheVars, dutyVars, phpVars>>

\* lines 1184-1190 of the stochastic branch for a population without
\* trajectories (with one, line 1112 ends the run before): every entry of
\* hist is reversed along its first axis and the result handed to the
\* setter; z is the ascending grid of the halo histories
SetFromStochastic(z) ==
    /\ set_pc = "idle"
    /\ StrictlyAscending(z)
    /\ \E hist \in {[z |-> z, t |-> [k \in DOMAIN z |-> MaxZ - z[k]],
                     zthin |-> [k \in DOMAIN z |-> 1], Mh |-> <<>>]} :
       \E flip \in {[key \in DOMAIN hist |->
                        [k \in DOMAIN hist[key] |->
                            hist[key][Size(hist[key]) - 1 - k]]]} :
          /\ set_arg' = flip
          /\ histories_' = histories(flip)
    /\ set_pc' = "set"
    /\ UNCHANGED <<starsVars, tileVars, haloVars, batchVars, regenVars,
                   histVars, seqVars, lnVars, cacheVars, dutyVars, phpVars>>

SetOff ==
    /\ set_arg = None /\ histories_ = None /\ set_pc = "off"

\* no attribute _histories yet
InitSet ==
    /\ set_arg = None /\ histories_ = None /\ set_pc = "idle"

NextSet ==
    \/ \E value \in HistDictSet : SetHistories(value)
    \/ SetAgain
    \/ \E n \in 2..NumT : \E z \in [0..(n - 1) -> 0..MaxZ] :
          SetFromStochastic(z)

\* ======================================================================
\* Specifications
\* ======================================================================

NextStars ==
    \/ \E i \in 0..(NumT - 2) : GenStarsCall(i)
    \/ \E mc \in TabMcl, n \in 0..MaxNMS : \E delays \in DelaySet(n) :
           Cluster(mc, n, delays)
    \/ GenStarsReturn

InitSpec == InitStars /\ TileOff /\ HaloOff /\ BatchOff /\ HistOff /\ SeqOff
    /\ LnOff /\ CacheOff
    /\ DutyOff /\ PhpOff /\ SetOff

\* cluster sampling of one timestep
Spec == InitSpec /\ [][NextStars]_vars

\* one pass of the while loop with whatever the generator draws
Sample ==
    \E mc \in TabMcl, n \in 0..MaxNMS : \E delays \in DelaySet(n) :
        Cluster(mc, n, delays)

\* cluster sampling of one timestep by an interpreter that keeps running:
\* a loop that can take its next pass takes it, a return that is due happens
SpecLive ==
    InitSpec /\ [][NextStars]_vars /\ WF_vars(Sample) /\ WF_vars(GenStarsReturn)

InitSpecTile == InitTile /\ StarsOff /\ HaloOff /\ BatchOff /\ HistOff /\ SeqOff
    /\ LnOff /\ CacheOff
    /\ DutyOff /\ PhpOff /\ SetOff

\* tile and the use of its result
SpecTile == InitSpecTile /\ [][NextTile]_vars

InitSpecHalo == InitHalo /\ StarsOff /\ TileOff /\ BatchOff /\ HistOff /\ SeqOff
    /\ LnOff /\ CacheOff
    /\ DutyOff /\ PhpOff /\ SetOff

\* halo-history generation and its cache
SpecHalo == InitSpecHalo /\ [][NextHalo]_vars

InitSpecRegen == InitRegen /\ StarsOff /\ TileOff /\ BatchOff /\ HistOff /\ SeqOff
    /\ LnOff /\ CacheOff
    /\ DutyOff /\ PhpOff /\ SetOff

\* two generations of the halo histories from the same input
SpecRegen == InitSpecRegen /\ [][NextRegen]_vars

InitSpecBatch == InitBatch /\ StarsOff /\ TileOff /\ HaloOff /\ HistOff /\ SeqOff
    /\ LnOff /\ CacheOff
    /\ DutyOff /\ PhpOff /\ SetOff

\* the deterministic batch evolver
SpecBatch == InitSpecBatch /\ [][NextBatch]_vars

InitSpecHist == InitHist /\ TileOff /\ HaloOff /\ BatchOff /\ SeqOff
    /\ LnOff /\ CacheOff
    /\ DutyOff /\ PhpOff /\ SetOff

\* trajectories of the stochastic engine, one call after another
SpecHist == InitSpecHist /\ [][NextHist]_vars

InitSpecSeq ==
    InitSeq /\ TileOff /\ HaloOff /\ BatchOff /\ HistOff /\ LnOff
    /\ CacheOff
    /\ DutyOff /\ PhpOff /\ SetOff

\* one timestep sampled twice from the same state of the generator
SpecSeq == InitSpecSeq /\ [][NextSeq]_vars

InitSpecLn ==
    InitLn /\ StarsOff /\ TileOff /\ HaloOff /\ BatchOff /\ HistOff /\ SeqOff
    /\ CacheOff
    /\ DutyOff /\ PhpOff /\ SetOff

\* the log-normal scatter and its correction, for the mean over seeds
SpecLn == InitSpecLn /\ [][NextLn]_vars

InitSpecCache ==
    InitCache /\ StarsOff /\ TileOff /\ HaloOff /\ BatchOff /\ HistOff /\ SeqOff
    /\ LnOff
    /\ DutyOff /\ PhpOff /\ SetOff

\* queries of the luminosity function and the stellar mass function
SpecCache == InitSpecCache /\ [][NextCache]_vars

InitSpecDuty ==
    InitDuty /\ StarsOff /\ TileOff /\ HaloOff /\ BatchOff /\ HistOff /\ SeqOff
    /\ LnOff /\ CacheOff /\ PhpOff /\ SetOff

\* the burst-mode duty cycle, run by an interpreter that keeps running and
\* a generator that draws every index again and again
SpecDuty ==
    InitSpecDuty /\ [][NextDuty]_vars
    /\ WF_vars(DutyBegin) /\ WF_vars(DutyFor) /\ WF_vars(DutyExit)
    /\ \A j \in TimeIdx : SF_vars(DutyPlace(j))

InitSpecPhp ==
    InitPhp /\ StarsOff /\ TileOff /\ HaloOff /\ BatchOff /\ HistOff /\ SeqOff
    /\ LnOff /\ CacheOff /\ DutyOff /\ SetOff

SpecPhp == InitSpecPhp /\ [][NextPhp]_vars

InitSpecSet ==
    InitSet /\ StarsOff /\ TileOff /\ HaloOff /\ BatchOff /\ HistOff /\ SeqOff
    /\ LnOff /\ CacheOff /\ DutyOff /\ PhpOff

SpecSet == InitSpecSet /\ [][NextSet]_vars

\* ======================================================================
\* Statements about the cluster sampling of one timestep (Spec)
\* ======================================================================

\* length of the step of the call, in the units of arr_t (line 713)
StepDt == arr_t[idnum + 1] - arr_t[idnum]

\* j is a slot at or after the current step whose time is nearest to
\* t[idnum] + delay
NearestSlot(j, delay) ==
    /\ j \in idnum..(NumT - 1)
    /\ \A k \in idnum..(NumT - 1) :
           Abs(arr_t[j] - (arr_t[idnum] + delay))
               <= Abs(arr_t[k] - (arr_t[idnum] + delay))

\* C1 as stated: when the loop ends, the returned formed stellar mass plus
\* the returned wind mass is at most the cold gas mass of the step.
C1_FormedPlusWindWithinGas ==
    pc = "done" => ret.Ms + ret.Mw <= Mg

\* C1 amended: when the loop ends, the returned formed stellar mass alone is
\* at most the cold gas mass of the step, and strictly below it when a
\* cluster formed; the returned wind mass is not bounded by the gas.
C1_FormedWithinGas ==
    pc = "done" => /\ ret.Ms <= Mg
                   /\ (ct > 0 => ret.Ms < Mg)
                   /\ (ct = 0 => ret.Ms = 0 /\ ret.Mw = 0)

C1_Witness ==
    pc = "done" /\ ct > 0 /\ ret.Ms < Mg /\ ret.Ms + ret.Mw > Mg

\* C2: in delay mode 1 (Poisson counts), when a cluster with N massive stars
\* is accepted at step i and dt < D, exactly one accumulator slot grows by N:
\* a slot j >= i whose time is nearest to t[i] + D; no other slot changes.
C2_OneNearestSlot ==
    [][(/\ pc = "loop"
        /\ Ms' # Ms
        /\ pf.delay_sne = 1
        /\ ~pf.sample_imf
        /\ StepDt < avg_delay)
       => \E j \in TimeIdx :
              /\ NearestSlot(j, avg_delay)
              /\ arr_SN' = [arr_SN EXCEPT ![j] = @ + N_MS']]_vars

C2_Witness ==
    /\ pc = "loop" /\ ct > 0 /\ N_MS > 0
    /\ pf.delay_sne = 1 /\ ~pf.sample_imf /\ StepDt < avg_delay
    /\ \E j \in TimeIdx : j > idnum + 1 /\ arr_SN[j] = SN_at_call[j] + N_MS
    /\ drawn = N_MS

\* C3 as stated: in delay mode 1 the counts added to the accumulator slots
\* during one call sum to the number of massive stars drawn in the call.
C3_AccumulatorHoldsAllDrawn ==
    (pc = "done" /\ pf.delay_sne = 1)
        => SumArr(arr_SN) - SumArr(SN_at_call) = drawn

\* C3 amended: in delay mode 1, for all dt and D, the counts added to the
\* accumulator slots plus the supernovae attributed at once to the current
\* step (N_SN_0, used when dt > D) sum to the number of massive stars drawn.
C3_CountsConserved ==
    (pc = "done" /\ pf.delay_sne = 1)
        => SumArr(arr_SN) - SumArr(SN_at_call) + N_SN_0 = drawn

C3_Witness ==
    /\ pc = "done" /\ pf.delay_sne = 1 /\ drawn > 0
    /\ StepDt > avg_delay /\ N_SN_0 = drawn /\ arr_SN = SN_at_call

\* C8: with IMF sampling and supernova delay mode 1 or 2, cluster sampling
\* never returns a result for which massive stars were drawn and their
\* supernovae scheduled; it fails instead.
C8_SampledImfDelayFails ==
    (pf.sample_imf /\ pf.delay_sne \in {1, 2})
        => ~(pc = "done" /\ drawn > 0)

C10_UnknownDelayModeRaises ==
    (pf.delay_sne \notin {0, 1, 2} /\ drawn > 0) => pc = "error"

\* j is the first slot at or after the current step among those nearest to
\* t[idnum] + delay
FirstNearest(j, delay) ==
    /\ NearestSlot(j, delay)
    /\ \A k \in idnum..(j - 1) : ~NearestSlot(k, delay)

\* number of the delays d that resolve to slot j
Resolving(d, j) == Cardinality({k \in DOMAIN d : FirstNearest(j, d[k])})

\* C21 as stated: in delay mode 2 only supernovae that resolve to a later
\* step are written into the accumulator, so the slot of the current step
\* is never written by the call.
C21_OnlyLaterWritten ==
    [][(pc = "loop" /\ pf.delay_sne = 2)
       => arr_SN'[idnum] = arr_SN[idnum]]_vars

\* C21 amended: in delay mode 2, for each accepted cluster there are delays,
\* one per massive star, such that every slot j >= i grows by the number of
\* delays whose nearest slot it is, the slot of the current step included,
\* and the current-step count N_SN_0 grows by the number that resolve to
\* the current step: these supernovae are written to slot i and counted.
C21_RoutedToNearest ==
    [][(pc = "loop" /\ Ms' # Ms /\ pf.delay_sne = 2)
       => \E d \in [1..N_MS' -> 0..MaxDelay] :
              /\ \A j \in TimeIdx :
                     arr_SN'[j] = arr_SN[j] + Resolving(d, j)
              /\ N_SN_0' = N_SN_0 + Resolving(d, idnum)]_vars

C21_Witness ==
    /\ pc = "loop" /\ pf.delay_sne = 2 /\ N_MS > 0 /\ N_SN_0 > 0
    /\ arr_SN[idnum] = SN_at_call[idnum] + N_SN_0
    /\ \E j \in TimeIdx : j > idnum /\ arr_SN[j] > SN_at_call[j]

C27_LoopTerminates ==
    /\ [][(pc = "loop" /\ pc' = "loop") => Ms' >= Ms + 1]_vars
    /\ [](ct > 0 => ct < Mg)
    /\ []((pc = "done" /\ Mg = 0)
              => (ct = 0 /\ ret.Ms = 0 /\ ret.Mw = 0))
    /\ (pc = "loop" ~> pc \in {"done", "error"})

C27_Witness ==
    pc = "done" /\ ct >= 2 /\ ret.Ms >= 2 /\ ret.Ms < Mg

\* ======================================================================
\* Statements about tile (SpecTile)
\* ======================================================================

\* C5: for a whole k >= 2 the result has k*N rows and rows [i*k, i*k+k) all
\* equal arr[i] (arr[i]/k with renorm, which keeps the column sums); for k in
\* {0, 1} the result equals arr; and the result is an independent object:
\* changing it never changes arr.
C5_TileBlocks ==
    (tile_pc = "returned" /\ tile_arg # None) =>
        LET k == tile_thin \div 2
            N == NRows(tile_arg)
        IN /\ (tile_thin % 2 = 0 /\ k >= 2) =>
                  /\ NRows(tile_ret) = k * N
                  /\ \A i \in 0..(N - 1), m \in 0..(k - 1), c \in ColIdx :
                         LET x == tile_ret[i * k + m][c]
                         IN IF tile_renorm
                            THEN CellEq(<<x[1] * k, x[2]>>, tile_arg[i][c])
                            ELSE x = tile_arg[i][c]
                  /\ tile_renorm =>
                         \A c \in ColIdx :
                             CellEq(ColSum(tile_ret, c), ColSum(tile_arg, c))
           /\ (tile_thin \in {0, 2}) => tile_ret = tile_arg
           /\ tile_arr = tile_arg

C5_Witness ==
    /\ tile_pc = "returned" /\ tile_thin = 4 /\ tile_renorm
    /\ NRows(tile_arg) = 2 /\ tile_arg[0] # tile_arg[1]
    /\ NRows(tile_ret) = 4
    /\ tile_new # tile_ret

\* ======================================================================
\* Statements about the generation of the halo histories (SpecHalo)
\* ======================================================================

\* the MAR was derived from Mh and handed back without a minimal trim
DerivedUntrimmed ==
    /\ halo_pc = "done" /\ halo_ret # None
    /\ ~raw.has_MAR
    /\ ~(hpf.synth_minimal /\ ~hpf.histories_given)

\* the growth of trajectory i between the grid points a and b of the raw
\* grid, per year: (Mh[a] - Mh[b]) / (t[a] - t[b])
RateBetween(i, a, b) ==
    <<raw.Mh[i][a][1] - raw.Mh[i][b][1],
      (cosm_t[raw.z[a]] - cosm_t[raw.z[b]]) * YrPerMyr>>

\* C6 as stated: the derived MAR has the shape of Mh, its slot at the highest
\* redshift of the grid holds the floor for every trajectory, and every other
\* slot holds the rate between the two adjacent grid points.
C6_FloorAtHighestRedshift ==
    DerivedUntrimmed =>
        LET last == Size(raw.z) - 1
        IN /\ Shape(halo_ret.MAR) = Shape(halo_ret.Mh)
           /\ \A i \in DOMAIN halo_ret.MAR :
                  /\ halo_ret.MAR[i][last] = tiny_MAR
                  /\ \A j \in 0..(last - 1) :
                         CellEq(halo_ret.MAR[i][j], RateBetween(i, j, j + 1))

\* C6 amended: the derived MAR has the shape of Mh, its slot at the lowest
\* redshift of the grid (index 0 of the ascending grid) holds the floor, not
\* zero, for every trajectory, and every other slot j holds
\* (Mh[j-1] - Mh[j]) / (t[j-1] - t[j]), the growth per year between the grid
\* point j and its lower-redshift neighbour.
C6_FloorAtLowestRedshift ==
    DerivedUntrimmed =>
        LET last == Size(raw.z) - 1
        IN /\ Shape(halo_ret.MAR) = Shape(halo_ret.Mh)
           /\ Shape(halo_ret.MAR) = <<NumHalo, Size(raw.z)>>
           /\ \A i \in DOMAIN halo_ret.MAR :
                  /\ halo_ret.MAR[i][0] = tiny_MAR
                  /\ halo_ret.MAR[i][0][1] # 0
                  /\ \A j \in 1..last :
                         /\ halo_ret.MAR[i][j][2] > 0
                         /\ CellEq(halo_ret.MAR[i][j], RateBetween(i, j - 1, j))

C6_Witness ==
    /\ DerivedUntrimmed
    /\ Size(raw.z) = 3
    /\ raw.Mh[0] # raw.Mh[1]
    /\ cosm_t[1] - cosm_t[2] # cosm_t[2] - cosm_t[3]
    /\ halo_ret.MAR[1][2] # halo_ret.MAR[1][1]

\* the raw grid has a descending or an equal adjacent pair
GridNotAscending ==
    \E j \in 0..(Size(raw.z) - 2) : raw.z[j + 1] <= raw.z[j]

\* C7: when the raw redshift grid is not strictly ascending, the generation
\* fails at an assertion that precedes every thinning and scatter step
\* (line 277 or line 292), returns no ensemble, and leaves tab_shape and
\* tab_z unset.
C7_GridAssertion ==
    (GridNotAscending /\ halo_pc # "off") =>
        /\ halo_pc \in {"idle", "AssertionError"}
        /\ halo_pc = "AssertionError" => halo_line \in {277, 292}
        /\ halo_ret = None
        /\ cache_halos = None
        /\ tab_shape = None
        /\ tab_z = None

C7_Witness ==
    /\ halo_pc = "AssertionError" /\ halo_line = 292
    /\ raw.z[0] = raw.z[1]
    /\ hpf.thin = 4 /\ tab_shape = None

\* trajectory i exceeds, at some step of the grid, the minimum-mass
\* threshold of the redshift of that step
ExceedsMminSomewhere(i) ==
    \E j \in DOMAIN raw.z : raw.Mh[i][j][1] > guide_Mmin[raw.z[j]]

\* C26: with minimal trim enabled (and no thinning or scatter, and MAR
\* given), the generation returns, and the retained trajectories are the
\* smallest contiguous window of indices that contains every trajectory
\* exceeding the threshold of the same redshift step somewhere; Mh, nh and
\* MAR are cut to these rows and to the redshifts within [zmin, zmax].
C26_TrimKeepsViableWindow ==
    (/\ halo_pc \in {"done", "ValueError", "AssertionError"}
     /\ hpf.synth_minimal /\ ~hpf.histories_given
     /\ hpf.thin = 0 /\ hpf.sigma_mar = 0 /\ hpf.sigma_env = 0
     /\ raw.has_MAR /\ StrictlyAscending(raw.z)
     /\ \E i \in DOMAIN raw.Mh : ExceedsMminSomewhere(i))
        => /\ halo_pc = "done"
           /\ LET V == {i \in DOMAIN raw.Mh : ExceedsMminSomewhere(i)}
                  lo == CHOOSE i \in V : \A k \in V : i <= k
                  hi == CHOOSE i \in V : \A k \in V : i >= k
                  zin == {j \in DOMAIN raw.z : /\ raw.z[j] >= hpf.zmin
                                               /\ raw.z[j] <= hpf.zmax}
              IN /\ halo_ret.Mh = Slice2(raw.Mh, lo..hi, zin)
                 /\ halo_ret.nh = Slice2(raw.nh, lo..hi, zin)
                 /\ halo_ret.MAR = Slice2(raw.MAR, lo..hi, zin)
                 /\ halo_ret.z = Slice1(raw.z, zin)

\* C14: after halo-history generation, for every thinning factor, every 2-D
\* time-series field of the returned ensemble (Mh, MAR, nh, and SFR and rand
\* when present) has the same shape [N_traj, N_time].
C14_FieldsShareShape ==
    (halo_pc = "done" /\ halo_ret # None) =>
        /\ Shape(halo_ret.MAR) = Shape(halo_ret.Mh)
        /\ Shape(halo_ret.nh) = Shape(halo_ret.Mh)
        /\ halo_ret.rand # None => Shape(halo_ret.rand) = Shape(halo_ret.Mh)
        /\ halo_ret.SFR # None => Shape(halo_ret.SFR) = Shape(halo_ret.Mh)

\* ======================================================================
\* Statements about one trajectory of the stochastic engine (SpecHist)
\* ======================================================================

\* pop_sample_imf off, delay mode 0, no radiative feedback
SupportedConfig ==
    /\ ~pf.sample_imf /\ pf.delay_sne = 0 /\ ~pf.feedback_rad

\* the trajectory has halo mass at some step before the last index
MassBeforeLast ==
    \E k \in 0..(NumT - 2) : Flip1(hist_halo.Mh)[k] > 0

\* C11: with a supported configuration, a non-decreasing time grid and
\* positive halo mass at some step before the last index, the evolution of
\* a trajectory ends in no other way than by returning the history; here
\* with zobs = 0 and the equilibrium override off
C11_RunsToReturn ==
    (/\ hist_halo # None
     /\ SupportedConfig
     /\ NonDecreasing(Flip1(hist_halo.t))
     /\ MassBeforeLast
     /\ hist_zobs = 0 /\ ~hist_eq)
        => hist_pc \in {"step", "stars", "returned"}

\* the loop of line 1021 is at a step with halo mass, at or above zobs and
\* before the last index: a step that is neither skipped nor a break
AtEvolvedStep ==
    /\ hist_pc = "step" /\ hist_i < NumT - 1
    /\ Flip1(hist_halo.Mh)[hist_i] # 0
    /\ Flip1(hist_halo.z)[hist_i] >= hist_zobs

\* C23: when the binding energy at step i exceeds the force-equilibrium
\* threshold, the step records SFR[i] = fb * MAR[i] / (1 + eta) (eta = 1
\* here), samples no cluster, and the loop goes on with step i + 1.
C23_EquilibriumStepContinues ==
    [][(AtEvolvedStep /\ hist_eq)
       => /\ hist_pc' = "step" /\ hist_i' = hist_i + 1
          /\ pc' = "idle"
          /\ hist_SFR'[hist_i] =
                 <<FbarOverFcdm * Flip1(hist_halo.MAR)[hist_i][1],
                   2 * Flip1(hist_halo.MAR)[hist_i][2]>>]_vars

\* C24: in single-phase and in multi-phase gas mode, the total gas mass and
\* the cold gas mass held for every step of the trajectory are never
\* negative, whatever the cluster sampling returns.
C24_GasNeverNegative ==
    hist_pc \in {"step", "stars", "returned", "NameError"}
        => \A k \in TimeIdx : arr_Mg_t[k] >= 0 /\ arr_Mg_c[k] >= 0

\* C28: in multi-phase mode, gas deposited into a cold-gas slot later than
\* the current step is still there when the loop reaches the step of that
\* slot: while a deposit waits in a later slot the evolution is running or
\* has returned its history, and it has not ended in any other way; here
\* with the equilibrium override off.
C28_DepositKeptUntilItsStep ==
    (hist_mp /\ ~hist_eq /\ \E j \in TimeIdx : j > hist_i /\ arr_Mg_c[j] > 0)
        => hist_pc \in {"step", "stars", "returned"}

\* the accumulators of the object hold nothing
AccumulatorsEmpty ==
    \A k \in TimeIdx :
        arr_SN[k] = 0 /\ arr_UV[k] = 0 /\ arr_Mg_c[k] = 0 /\ arr_Mg_t[k] = 0

\* C17: a trajectory starts its loop with the supernova, UV, cold-gas and
\* total-gas accumulators at zero, and the pending supernovae that a
\* timestep reads are those this trajectory deposited itself
C17_StartsFromZero ==
    /\ (hist_pc = "step" /\ hist_i = 0) => AccumulatorsEmpty
    /\ (hist_pc = "stars" /\ pc \in {"loop", "done"})
           => N_SN_p = own_SN[idnum]

\* a trajectory starts on an object whose supernova accumulator held
\* deposits of the trajectory before
C17_Witness ==
    /\ hist_pc = "step" /\ hist_i = 0
    /\ left_SN
    /\ AccumulatorsEmpty

\* ======================================================================
\* Statements about the draws of one timestep (SpecSeq)
\* ======================================================================

C12_SameMARFromSameInput ==
    (halo_pc = "done" /\ halo_prev # None
       /\ (hpf.sigma_env > 0 \/ hpf.sigma_mar > 0))
        => halo_ret.MAR = halo_prev

\* ======================================================================
\* Statements about the deterministic batch evolver (SpecBatch)
\* ======================================================================

\* C4: in the result of the evolver, for every trajectory, Ms at the first
\* time index is 0 and Ms at every step k equals the sum over j < k of
\* SFR[j] * dt[j] * (1 - r), with the SFR of the same result.
C4_StellarMassIsSumOfReturnedSFR ==
    batch_pc = "done" =>
        \A i \in DOMAIN results.Ms :
            /\ results.Ms[i][0] = 0
            /\ \A k \in 1..(Size(results.Ms[i]) - 1) :
                   results.Ms[i][k] =
                       CumSumTo([j \in 0..(k - 1) |->
                                    results.SFR[i][j] * results.dt[j] * bpf.fml],
                                k - 1)

\* the evolver computed the SFR itself, with no duty cycle, no quenching
\* and no dust
ComputedSFR ==
    /\ batch_pc = "done"
    /\ ~halos.has_SFR /\ ~bpf.fduty /\ bpf.quench = "none"
    /\ bpf.dust = "none"

\* the halo of trajectory i is above the minimum mass at the first time index
AboveMminAtFirst(i) ==
    IF bpf.Mmin # 0 THEN results.Mh[i][0] >= bpf.Mmin
    ELSE results.Mh[i][0] >= bpf.Mvir[results.z[0]]

\* C18 as stated: with the SFR computed from the halo histories, constant
\* efficiency, no duty cycle and no quenching, the returned SFR at the
\* first time index is 0 for every trajectory
C18_FirstSFRIsZero ==
    ComputedSFR => \A i \in DOMAIN results.SFR : results.SFR[i][0] = 0

\* C18: under the same conditions it is the returned stellar mass that is 0
\* at the first time index; the returned SFR there is fb * SFE * MAR of
\* that index for a halo above the minimum mass and 0 below it
C18_FirstMsIsZero ==
    ComputedSFR =>
        \A i \in DOMAIN results.SFR :
            /\ results.Ms[i][0] = 0
            /\ results.SFR[i][0] =
                   IF AboveMminAtFirst(i)
                   THEN bpf.fb * bpf.sfe * results.MAR[i][0]
                   ELSE 0

\* a trajectory that forms stars at the first time index
C18_Witness ==
    /\ ComputedSFR
    /\ \E i \in DOMAIN results.SFR :
           /\ results.SFR[i][0] > 0
           /\ results.Ms[i][0] = 0
           /\ results.Ms[i][1] > 0

\* C19: with dust scatter on, the returned dust surface density is the
\* unscattered one put through the steps of the accretion-rate scatter:
\* seeded log-normal noise added, then the division by the correction factor
C19_DustScatterLikeMAR ==
    (batch_pc = "done" /\ bpf.dust = "scatter") =>
        LET like == ToCgs(ScatterMAR(SurfaceDensity(results.Md),
                                     bpf.dust_seed))
        IN \A i \in DOMAIN results.Sd : \A k \in DOMAIN results.Sd[i] :
               CellEq(results.Sd[i][k], like[i][k])

\* C15: limited to the main branch, the result holds one row per trajectory
\* whose parent pointer is -1 in each of nh, Mh, MAR, SFR, Ms and rand
C15_OneRowPerMainBranch ==
    (batch_pc = "done" /\ bpf.mergers = -1) =>
        LET n == Cardinality({i \in BatchIdx : halos.children[i] = -1})
        IN /\ Size(results.nh) = n /\ Size(results.Mh) = n
           /\ Size(results.MAR) = n /\ Size(results.SFR) = n
           /\ Size(results.Ms) = n
           /\ results.rand # None => Size(results.rand) = n

\* ======================================================================
\* Statements about the mean of the log-normal scatter (SpecLn)
\* ======================================================================

\* C20: for a constant positive array and sigma > 0, the mean over seeds of
\* (array + noise_lognormal(array, sigma)) / exp(0.5 * sigma**2) is the
\* original value
C20_MeanPreserved ==
    (ln_pc = "normalized") =>
        (ln_mean.val = ln_arr /\ ln_mean.expo = 0)

\* ======================================================================
\* Statements about the cached queries (SpecCache)
\* ======================================================================

\* what the last query returns when nothing is cached
Uncached ==
    IF q_call.f = "lf"
    THEN [raised |-> FALSE,
          val |-> LookupLF(ComputeLF(q_call.z, q_call.wave, q_call.window,
                                     q_call.band))]
    ELSE LET e == ComputeSMF(q_call.z, q_call.bins, q_call.units)
         IN IF e.err THEN [raised |-> TRUE, val |-> None]
            ELSE [raised |-> FALSE, val |-> LookupSMF(e, e.x)]

\* C16: after any sequence of calls of LuminosityFunction and
\* StellarMassFunction, the value returned for an argument tuple is the
\* value the computation without cache returns for that tuple
C16_CachedEqualsUncached ==
    (q_call # None) => (q_ret = Uncached)

\* ======================================================================
\* Statements about the burst-mode duty cycle (SpecDuty)
\* ======================================================================

\* C25: for every trajectory with some nonzero SFR and a target fraction
\* below 1, for every on-window length and timestep, the window-placement
\* loop ends, and when it ends the realized on-fraction is at least the
\* target and exceeds it by less than one window length over the number of
\* timesteps.
C25_PlacementTerminates ==
    /\ (duty_pc = "while" ~> duty_pc # "while")
    /\ [][(duty_pc = "while" /\ duty_pc' = "for")
          => /\ OnSum(duty_i) * DutyDen >= duty_favg[duty_i] * NumT
             /\ \/ OnSum(duty_i) * DutyDen = duty_favg[duty_i] * NumT
                \/ (OnSum(duty_i) - IOn) * DutyDen
                       < duty_favg[duty_i] * NumT]_vars

\* ======================================================================
\* Statements about the extrapolation guard (SpecPhp)
\* ======================================================================

\* C29: the guard _apply_extrap is 1 at the start of every top-level call,
\* after any sequence of earlier calls, those that ended with an error
\* included.
C29_GuardRestored == (php_pc = "idle") => (apply_extrap_ = 1)

\* ======================================================================
\* Statements about the setter of histories (SpecSet)
\* ======================================================================

StrictlyDescending(z) == \A j \in 0..(Size(z) - 2) : z[j + 1] < z[j]

\* b is a read backwards
Backwards(a, b) ==
    /\ DOMAIN b = DOMAIN a
    /\ \A k \in DOMAIN a : b[k] = a[Size(a) - 1 - k]

\* every array of the stored dictionary is the array handed over, read
\* backwards along the grid; the other entries are the ones handed over
StoredReversed ==
    /\ DOMAIN histories_ = DOMAIN set_arg
    /\ \A key \in DOMAIN set_arg :
          IF key \in {"z", "t", "zthin"}
          THEN Backwards(set_arg[key], histories_[key])
          ELSE IF key = "Mh"
          THEN /\ DOMAIN histories_.Mh = DOMAIN set_arg.Mh
               /\ \A i \in DOMAIN set_arg.Mh :
                     Backwards(set_arg.Mh[i], histories_.Mh[i])
          ELSE histories_[key] = set_arg[key]

\* C30: after the setter stored a dictionary whose redshift grid is
\* strictly monotonic, the stored grid is descending, every array was
\* reversed along the grid exactly when the grid was reversed (the grid
\* handed over was ascending), and handing the stored dictionary to the
\* setter again changes nothing.
C30_SetterIdempotent ==
    /\ []((/\ set_pc \in {"set", "again"}
           /\ "z" \in DOMAIN set_arg
           /\ (StrictlyAscending(set_arg.z) \/ StrictlyDescending(set_arg.z)))
          => /\ StrictlyDescending(histories_.z)
             /\ IF StrictlyAscending(set_arg.z)
                THEN StoredReversed
                ELSE histories_ = set_arg)
    /\ [][(set_pc = "set" /\ set_pc' = "again"
           /\ "z" \in DOMAIN set_arg
           /\ (StrictlyAscending(set_arg.z) \/ StrictlyDescending(set_arg.z)))
          => histories_' = histories_]_vars

\* an ascending grid of NumT redshifts with NumHalo trajectories was
\* stored reversed and then handed to the setter again
C30_Witness ==
    /\ set_pc = "again"
    /\ "z" \in DOMAIN set_arg
    /\ Size(set_arg.z) = NumT
    /\ StrictlyAscending(set_arg.z)
    /\ Size(set_arg.Mh) = NumHalo
    /\ histories_.z # set_arg.z
    /\ histories_.Mh # set_arg.Mh

====
